---- MODULE Spec2Model ----
(***************************************************************************)
(* llm-pipeline: one LlmCall::invoke (src/src/llm_call.rs) running on top  *)
(* of the transport backoff controller (src/src/backend/mod.rs) against a  *)
(* backend whose replies are chosen by the environment, with the           *)
(* cancellation flag set by another task.                                  *)
(*                                                                         *)
(* Granularity: one action per stretch of code between two points where    *)
(* the other task can be observed (a cancellation check, a suspension).    *)
(* A cancellation check and the code that follows it up to the next        *)
(* suspension are one step.                                                *)
(*                                                                         *)
(* Option<T> is a sequence: None is << >>, Some(x) is <<x>>.               *)
(* Text is a sequence of one-character tokens, durations are milliseconds, *)
(* temperatures and backoff multipliers are tenths.                        *)
(***************************************************************************)
EXTENDS Integers, Sequences, FiniteSets, TLC

VARIABLES
    config,            \* LlmCall fields + ExecCtx.backoff, fixed at construction
    cancel,            \* ExecCtx.cancellation (AtomicBool)
    pc,                \* position of the invocation
    events,            \* events handed to the event sink, in emission order
    result,            \* what invoke returned
    output,            \* invoke: `output`
    sem_attempt,       \* invoke: `attempt` of the retry loop (0 = initial call)
    retry_reason,      \* invoke: `retry_reason`
    messages,          \* invoke: `messages`
    temp_offset,       \* invoke: `temp_offset`
    request,           \* the LlmRequest of the current model call
    response,          \* invoke: `response.text` of the latest call that returned Ok
    bo_attempt,        \* with_backoff: `attempt`
    last_error,        \* with_backoff: `last_error`
    transport_retries, \* call_backend: `transport_retries`
    backoff_total_ms,  \* call_backend: `backoff_total_ms`
    accumulated,       \* complete_streaming: `accumulated`
    stream_rest,       \* tokens the provider has still to deliver on the open stream
    requests,          \* number of Backend::complete / complete_streaming calls
    call_requests,     \* the same, within the current with_backoff call
    model_calls,       \* number of call_backend / call_backend_streaming calls
    model_text,        \* the raw model text handed to build_output
    built,             \* build_output: how the call ended
    chain,             \* Chain.payloads, by name
    chain_input,       \* execute_all: `input`
    chain_pc,          \* position of the chain execution
    step,              \* execute_all: position of the `for payload` loop (1-based)
    current,           \* execute_all: `current`
    outputs,           \* execute_all: `outputs`
    step_inputs,       \* the inputs handed to Payload::invoke, in call order
    chain_result,      \* what execute_all returned
    strip_input,       \* strip_think_tags: `text`
    strip_output,      \* strip_think_tags: what it returned
    preprocessed,      \* what preprocess returned, applied again to its own result
    nd_input,          \* the byte stream the NDJSON transport delivers
    nd_rest,           \* the bytes not yet handed to StreamingDecoder::decode
    nd_buffer,         \* StreamingDecoder.buffer
    nd_values,         \* the values decode and flush have returned, in order
    nd_flushed,        \* StreamingDecoder::flush has been called
    sse_input,         \* the byte stream the SSE transport delivers
    sse_rest,          \* the bytes not yet handed to SseDecoder::decode
    sse_buffer,        \* SseDecoder.buffer
    sse_values,        \* the values decode has returned, in order
    sse_flushed,       \* SseDecoder::flush has been called
    parser_buffer,     \* StreamingJsonParser.buffer
    cached_value,      \* StreamingJsonParser.cached_value
    last_parsed_len,   \* StreamingJsonParser.last_parsed_len
    pushed,            \* the buffer after each push since the last clear
    parser_calls,      \* number of push and clear calls made
    bracket_text,      \* find_bracketed: `text`
    bracket_found,     \* find_bracketed: what it returned
    repair_input,      \* try_repair_json: `broken`
    repair_found,      \* try_repair_json: what it returned
    valid_choices,     \* parse_choice: `valid_choices`
    choice_response,   \* parse_choice: `response`
    choice_result,     \* parse_choice: what it returned
    number_response,   \* the raw response text given to build_output (number_in_range)
    number_range,      \* the strategy's <<min, max>>
    number_output,     \* the value and parse error build_output gave
    render_template,   \* the prompt template
    render_input,      \* the stringified input value
    render_vars,       \* the context variables, <<key, value>> in iteration order
    prompt_rendered,   \* what LlmCall::render_prompt returned
    lib_rendered,      \* what prompt::render returned
    event_handler,     \* ExecCtx.event_handler is Some
    heard,             \* the step taken last: what the backend or the canceller did
    sent,              \* the requests handed to the backend, in order
    twin,              \* the other invocation of a pair run with and without a sink
    json_response,     \* the raw response text given to build_output (json)
    json_output        \* the value, parse error and repaired flag build_output gave

vars == <<config, cancel, pc, events, result, output, sem_attempt, retry_reason,
          messages, temp_offset, request, response, bo_attempt, last_error,
          transport_retries, backoff_total_ms, accumulated, stream_rest,
          requests, call_requests, model_calls, model_text, built, chain, chain_input,
          chain_pc, step, current, outputs, step_inputs, chain_result,
          strip_input, strip_output, preprocessed, nd_input, nd_rest, nd_buffer, nd_values,
          nd_flushed, sse_input, sse_rest, sse_buffer, sse_values, sse_flushed,
          parser_buffer, cached_value, last_parsed_len, pushed, parser_calls,
          bracket_text, bracket_found,
          repair_input, repair_found,
          valid_choices, choice_response, choice_result,
          number_response, number_range, number_output,
          render_template, render_input, render_vars, prompt_rendered, lib_rendered,
          event_handler, heard, sent, twin,
          json_response, json_output>>

invVars == <<output, sem_attempt, retry_reason, messages, temp_offset, request, response,
            model_calls>>
backoffVars == <<bo_attempt, last_error, transport_retries, backoff_total_ms, call_requests>>
streamVars == <<accumulated, stream_rest>>
twinVars == <<event_handler, heard, sent, twin>>
callVars == <<config, pc, events, result, invVars, backoffVars, streamVars, requests, twinVars>>
outVars == <<model_text, built>>
chainVars == <<chain, chain_input, chain_pc, step, current, outputs, step_inputs, chain_result>>
stripVars == <<strip_input, strip_output, preprocessed>>
ndVars == <<nd_input, nd_rest, nd_buffer, nd_values, nd_flushed>>
sseVars == <<sse_input, sse_rest, sse_buffer, sse_values, sse_flushed>>
parserVars == <<parser_buffer, cached_value, last_parsed_len, pushed, parser_calls>>
bracketVars == <<bracket_text, bracket_found>>
repairVars == <<repair_input, repair_found>>
choiceVars == <<valid_choices, choice_response, choice_result>>
numberVars == <<number_response, number_range, number_output>>
renderVars == <<render_template, render_input, render_vars, prompt_rendered, lib_rendered>>
jsonVars == <<json_response, json_output>>
pureVars == <<bracketVars, repairVars, choiceVars, numberVars, renderVars, jsonVars>>
libVars == <<stripVars, ndVars, sseVars, parserVars, pureVars>>

----------------------------------------------------------------------------
(* Bounds *)

MaxTransportRetries == 2   \* largest BackoffConfig.max_retries explored
MaxRequestedRetries == 6   \* largest argument given to RetryConfig::new
MaxCombinedRetries == 3    \* largest semantic + transport budget explored together (or with streaming)
MaxTextLen == 3            \* longest raw model text handed to build_output on its own
MaxChainLen == 3           \* longest chain executed

----------------------------------------------------------------------------
(* Helpers *)

None == << >>
Some(x) == <<x>>
IsSome(o) == o /= << >>
Unwrap(o) == o[1]

Min(a, b) == IF a < b THEN a ELSE b
Max(a, b) == IF a > b THEN a ELSE b

RECURSIVE Pow(_, _)
Pow(b, e) == IF e = 0 THEN 1 ELSE b * Pow(b, e - 1)

----------------------------------------------------------------------------
(* Errors (PipelineError) *)

HttpError(status, retry_after) ==
    [kind |-> "HttpError", status |-> status, retry_after |-> retry_after, msg |-> ""]
RequestError == [kind |-> "Request", status |-> 0, retry_after |-> None, msg |-> ""]
Cancelled == [kind |-> "Cancelled", status |-> 0, retry_after |-> None, msg |-> ""]
Other(m) == [kind |-> "Other", status |-> 0, retry_after |-> None, msg |-> m]

\* send() failed: connection refused, DNS, TLS, timeout
ConnectFailure == Other("Failed to connect to LLM")

NoResult == [kind |-> "none", status |-> 0, retry_after |-> None, msg |-> ""]
OkResult == [kind |-> "ok", status |-> 0, retry_after |-> None, msg |-> ""]

----------------------------------------------------------------------------
(* What the provider can answer *)

\* generated texts: empty, one token, several tokens
Responses == { << >>, <<"a">>, <<"b">>, <<"a", "b">> }

\* non-success replies: 4xx, rate limit without and with Retry-After, 5xx
HttpFailures == { HttpError(400, None), HttpError(429, None), HttpError(429, Some(1000)),
                  HttpError(501, None), HttpError(503, None) }

----------------------------------------------------------------------------
(* Configuration *)

RetryCap == 5

\* RetryConfig::new without the clamp
RetryConfigNew_unclamped(max_retries) ==
    [max_retries |-> max_retries, validator |-> None, cool_down |-> TRUE]

RetryConfigNew(max_retries) ==
    [max_retries |-> Min(max_retries, RetryCap), validator |-> None, cool_down |-> TRUE]

\* the validator used here rejects an empty answer
with_validator(rc) == [rc EXCEPT !.validator = Some("non_empty")]

BackoffStandard ==
    [max_retries |-> 3, initial_delay |-> 1000, multiplier |-> 20, max_delay |-> 60000,
     jitter |-> "Full", retryable_statuses |-> {429, 500, 502, 503, 504},
     respect_retry_after |-> TRUE]

\* the policy of the transport-retry scenario: 10 ms, doubling, no jitter
BackoffPolicy(max_retries) ==
    [BackoffStandard EXCEPT !.max_retries = max_retries, !.initial_delay = 10,
                            !.max_delay = 25, !.jitter = "None"]

Configs ==
    { c \in [streaming : BOOLEAN,
             temperature : {7},
             retry : {None} \cup { Some(with_validator(RetryConfigNew(n))) : n \in 0..MaxRequestedRetries },
             backoff : { BackoffPolicy(m) : m \in 0..MaxTransportRetries }] :
        (c.streaming \/ c.backoff.max_retries > 0) /\ IsSome(c.retry)
            => Unwrap(c.retry).max_retries + c.backoff.max_retries <= MaxCombinedRetries }

----------------------------------------------------------------------------
(* Events *)

PayloadStart == [kind |-> "PayloadStart"]
PayloadEnd(ok) == [kind |-> "PayloadEnd", ok |-> ok]
Token(chunk) == [kind |-> "Token", chunk |-> chunk]
RetryStart(attempt, reason) == [kind |-> "RetryStart", attempt |-> attempt, reason |-> reason]
RetryEnd(attempts, success) == [kind |-> "RetryEnd", attempts |-> attempts, success |-> success]
TransportRetry(attempt, delay_ms) ==
    [kind |-> "TransportRetry", attempt |-> attempt, delay_ms |-> delay_ms]

\* events::emit that hands the event on whether or not a sink is installed
emit_unconditional(evs, event) == Append(evs, event)

\* events::emit: the event goes to the sink if one is installed
emit(evs, event) == IF event_handler THEN Append(evs, event) ELSE evs

\* one step of the backend or of the canceller, as the invocation saw it
Step(action, delay, error, text) ==
    [action |-> action, delay |-> delay, error |-> error, text |-> text]

NoStep == Step("", 0, None, None)

\* the step is noted when the invocation is one of a compared pair, and the
\* turn passes to the other invocation
Heard(action, delay, error, text) ==
    /\ twin.turn \in {"off", "sink", "quiet"}
    /\ heard' = IF twin.turn = "off" THEN heard ELSE Step(action, delay, error, text)
    /\ sent' = IF twin.turn /= "off" /\ requests' /= requests
               THEN Append(sent, request)
               ELSE sent
    /\ twin' = IF twin.turn = "off" THEN twin
               ELSE [twin EXCEPT !.turn = IF twin.turn = "sink" THEN "sink_stepped"
                                          ELSE "quiet_stepped"]
    /\ UNCHANGED event_handler

----------------------------------------------------------------------------
(* Output construction and the retry predicate *)

\* OutputStrategy::Custom(f): f rejects any text that contains the token "b"
CustomParse(cleaned) ==
    IF \E i \in 1..Len(cleaned) : cleaned[i] = "b"
    THEN [ok |-> FALSE, value |-> None, err |-> "unparseable"]
    ELSE [ok |-> TRUE, value |-> Some(cleaned), err |-> ""]

\* str::find for a one-token pattern: index of the first occurrence, 0 if none
Find(text, tok) ==
    IF \E i \in 1..Len(text) : text[i] = tok
    THEN CHOOSE i \in 1..Len(text) : text[i] = tok /\ \A j \in 1..(i - 1) : text[j] /= tok
    ELSE 0

Whitespace == {" ", "\n"}

RECURSIVE TrimStart(_)
TrimStart(text) ==
    IF text /= << >> /\ Head(text) \in Whitespace THEN TrimStart(Tail(text)) ELSE text

RECURSIVE TrimEnd(_)
TrimEnd(text) ==
    IF text /= << >> /\ text[Len(text)] \in Whitespace
    THEN TrimEnd(SubSeq(text, 1, Len(text) - 1))
    ELSE text

\* str::trim
Trim(text) == TrimEnd(TrimStart(text))

\* `panic` is the slice `text[start_idx + len..end_idx]` taken with its start
\* past its end: the first "</think>" lies before the first "<think>"
extract_thinking(text) ==
    LET start_idx == Find(text, "<think>")
        end_idx == Find(text, "</think>")
    IN  IF start_idx > 0 /\ end_idx > 0
        THEN IF end_idx < start_idx + 1
             THEN [panic |-> TRUE, thinking |-> None, cleaned |-> << >>]
             ELSE LET thinking == Trim(SubSeq(text, start_idx + 1, end_idx - 1))
                      cleaned == Trim(SubSeq(text, 1, start_idx - 1)
                                      \o SubSeq(text, end_idx + 1, Len(text)))
                  IN  [panic |-> FALSE,
                       thinking |-> IF thinking = << >> THEN None ELSE Some(thinking),
                       cleaned |-> cleaned]
        ELSE [panic |-> FALSE, thinking |-> None, cleaned |-> text]

\* build_output that appends the new text to the raw response it replaces
build_output_appending(raw_text) ==
    LET cleaned == extract_thinking(raw_text).cleaned
        parsed == CustomParse(cleaned)
    IN  [value |-> IF parsed.ok THEN Unwrap(parsed.value) ELSE cleaned,
         raw_response |-> output.raw_response \o raw_text,
         thinking |-> extract_thinking(raw_text).thinking,
         strategy |-> "custom",
         parse_error |-> IF parsed.ok THEN None ELSE Some(parsed.err),
         retry_attempts |-> 0,
         transport_retries |-> 0,
         backoff_total_ms |-> 0]

build_output(raw_text) ==
    LET cleaned == extract_thinking(raw_text).cleaned
        parsed == CustomParse(cleaned)
    IN  [value |-> IF parsed.ok THEN Unwrap(parsed.value) ELSE cleaned,
         raw_response |-> raw_text,
         thinking |-> extract_thinking(raw_text).thinking,
         strategy |-> "custom",
         parse_error |-> IF parsed.ok THEN None ELSE Some(parsed.err),
         retry_attempts |-> 0,
         transport_retries |-> 0,
         backoff_total_ms |-> 0]

NoOutput == [value |-> << >>, raw_response |-> << >>, thinking |-> None,
             strategy |-> "", parse_error |-> None,
             retry_attempts |-> 0, transport_retries |-> 0, backoff_total_ms |-> 0]

Validator(name, raw, value) ==
    IF name = "non_empty" /\ raw = << >> THEN Some("empty answer") ELSE None

check_retry_needed(out, retry_config) ==
    IF IsSome(out.parse_error) THEN out.parse_error
    ELSE IF IsSome(retry_config.validator)
         THEN Validator(Unwrap(retry_config.validator), out.raw_response, out.value)
         ELSE None

----------------------------------------------------------------------------
(* Transport backoff *)

\* is_retryable taking every 5xx status as transient
is_retryable_any5xx(error, backoff) ==
    CASE error.kind = "HttpError" -> error.status = 429 \/ error.status >= 500
      [] error.kind = "Request" -> TRUE
      [] OTHER -> FALSE

is_retryable(error, backoff) ==
    CASE error.kind = "HttpError" -> error.status \in backoff.retryable_statuses
      [] error.kind = "Request" -> TRUE
      [] OTHER -> FALSE

\* the delays delay_for_attempt can return (a set: jitter is random)
delay_for_attempt(backoff, attempt) ==
    LET base == (backoff.initial_delay * Pow(backoff.multiplier, attempt)) \div Pow(10, attempt)
        capped == Min(base, backoff.max_delay)
    IN  CASE backoff.jitter = "None" -> {capped}
          [] backoff.jitter = "Full" -> 0..capped
          [] backoff.jitter = "Equal" -> (capped \div 2)..capped
          [] OTHER -> 0..capped

\* the delay computed without looking at Retry-After
BackoffDelays_ignoringRetryAfter(backoff, attempt, lastErr) ==
    delay_for_attempt(backoff, attempt - 1)

\* with_backoff: the delay slept before `attempt` > 0
BackoffDelays(backoff, attempt, lastErr) ==
    IF IsSome(lastErr) /\ Unwrap(lastErr).kind = "HttpError"
       /\ IsSome(Unwrap(lastErr).retry_after)
    THEN IF backoff.respect_retry_after
         THEN {Unwrap(Unwrap(lastErr).retry_after)}
         ELSE delay_for_attempt(backoff, attempt - 1)
    ELSE delay_for_attempt(backoff, attempt - 1)

\* the flag loads of with_backoff / with_backoff_streaming
CancelledBeforeAttempt == cancel
\* with_backoff without the check after the sleep
CancelledAfterSleep_skipped == FALSE

CancelledAfterSleep == cancel

\* ExecCtx::is_cancelled that never sees the flag
is_cancelled_blind == FALSE

\* ExecCtx::is_cancelled
is_cancelled == cancel

\* check_cancelled that lets the caller go on
check_cancelled_skipped == FALSE

\* ExecCtx::check_cancelled returns Err(Cancelled)
check_cancelled == is_cancelled

\* the retry test with an off-by-one bound
ShouldRetry_offByOne(attempt, error, backoff) ==
    attempt <= backoff.max_retries /\ is_retryable(error, backoff)

\* `attempt < config.max_retries && is_retryable(&e, config)`
ShouldRetry(attempt, error, backoff) ==
    attempt < backoff.max_retries /\ is_retryable(error, backoff)

----------------------------------------------------------------------------
(* State after construction *)

UserTurn(content) == [role |-> "user", content |-> content]
AssistantTurn(content) == [role |-> "assistant", content |-> content]

\* the rendered prompt, as one opaque text
Prompt == <<"prompt">>

\* the correction turn without the failure reason
Correction_noReason(reason) ==
    <<"Your previous response was invalid: ", "",
      ". Please try again with the correct format.">>

Correction(reason) ==
    <<"Your previous response was invalid: ", reason,
      ". Please try again with the correct format.">>

\* the chat turns the backend sends for a request without system prompt
build_chat_body(req) ==
    req.messages \o (IF req.messages = << >> THEN <<UserTurn(req.prompt)>> ELSE << >>)

NoRequest == [prompt |-> << >>, messages |-> << >>, temperature |-> 0, stream |-> FALSE]

\* no invocation has begun
CallFresh ==
    /\ pc = "idle"
    /\ events = << >>
    /\ result = NoResult
    /\ output = NoOutput
    /\ sem_attempt = 0
    /\ retry_reason = None
    /\ messages = << >>
    /\ temp_offset = 0
    /\ request = NoRequest
    /\ response = << >>
    /\ bo_attempt = 0
    /\ last_error = None
    /\ transport_retries = 0
    /\ backoff_total_ms = 0
    /\ accumulated = << >>
    /\ stream_rest = << >>
    /\ requests = 0
    /\ call_requests = 0
    /\ model_calls = 0

\* the invocation's state, the event log left out
CallState ==
    [cancel |-> cancel, pc |-> pc, result |-> result, output |-> output,
     sem_attempt |-> sem_attempt, retry_reason |-> retry_reason, messages |-> messages,
     temp_offset |-> temp_offset, request |-> request, response |-> response,
     bo_attempt |-> bo_attempt, last_error |-> last_error,
     transport_retries |-> transport_retries, backoff_total_ms |-> backoff_total_ms,
     accumulated |-> accumulated, stream_rest |-> stream_rest, requests |-> requests,
     call_requests |-> call_requests, model_calls |-> model_calls, sent |-> sent]

\* the invocation is not one of a pair run with and without the sink
NotCompared == [turn |-> "off", events |-> << >>]

\* a sink is installed; the invocation runs on its own
CallInit ==
    /\ CallFresh
    /\ event_handler = TRUE
    /\ heard = NoStep
    /\ sent = << >>
    /\ twin = NotCompared

\* build_output has not been called
NotBuilt == [state |-> "pending", output |-> NoOutput]

OutputIdle ==
    /\ model_text = << >>
    /\ built = NotBuilt

NoChainResult == [kind |-> "none", error |-> NoResult, outputs |-> << >>]

\* no chain is executing
ChainIdle ==
    /\ chain = << >>
    /\ chain_input = ""
    /\ chain_pc = "idle"
    /\ step = 0
    /\ current = ""
    /\ outputs = << >>
    /\ step_inputs = << >>
    /\ chain_result = NoChainResult

\* strip_think_tags has not been called
StripIdle ==
    /\ strip_input = << >>
    /\ strip_output = None
    /\ preprocessed = << >>

\* no NDJSON stream is open
NdjsonIdle ==
    /\ nd_input = << >>
    /\ nd_rest = << >>
    /\ nd_buffer = << >>
    /\ nd_values = << >>
    /\ nd_flushed = FALSE

\* no SSE stream is open
SseIdle ==
    /\ sse_input = << >>
    /\ sse_rest = << >>
    /\ sse_buffer = << >>
    /\ sse_values = << >>
    /\ sse_flushed = FALSE

\* StreamingJsonParser::new
ParserNew ==
    /\ parser_buffer = << >>
    /\ cached_value = None
    /\ last_parsed_len = 0
    /\ pushed = << >>
    /\ parser_calls = 0

\* find_bracketed has not been called
NotCalled == [called |-> FALSE, value |-> None]
Returned(v) == [called |-> TRUE, value |-> v]

BracketIdle ==
    /\ bracket_text = << >>
    /\ bracket_found = NotCalled

\* try_repair_json has not been called
RepairIdle ==
    /\ repair_input = << >>
    /\ repair_found = NotCalled

\* parse_choice has not been called
ChoiceIdle ==
    /\ valid_choices = << >>
    /\ choice_response = << >>
    /\ choice_result = NotCalled

\* no number has been asked for
NumberIdle ==
    /\ number_response = << >>
    /\ number_range = <<0, 0>>
    /\ number_output = NotCalled

\* nothing has been rendered
RenderIdle ==
    /\ render_template = << >>
    /\ render_input = << >>
    /\ render_vars = << >>
    /\ prompt_rendered = NotCalled
    /\ lib_rendered = NotCalled

\* no JSON output has been built
JsonIdle ==
    /\ json_response = << >>
    /\ json_output = NotCalled

PureIdle == BracketIdle /\ RepairIdle /\ ChoiceIdle /\ NumberIdle /\ RenderIdle /\ JsonIdle

LibIdle == StripIdle /\ NdjsonIdle /\ SseIdle /\ ParserNew /\ PureIdle

Init ==
    /\ config \in Configs
    /\ cancel \in BOOLEAN
    /\ CallInit
    /\ OutputIdle
    /\ ChainIdle
    /\ LibIdle

----------------------------------------------------------------------------
(* invoke: what follows the return of call_backend / call_backend_streaming *)

\* entering call_backend(_streaming) and with_backoff(_streaming)
StartCall ==
    /\ transport_retries' = 0
    /\ backoff_total_ms' = 0
    /\ last_error' = None
    /\ bo_attempt' = 0
    /\ call_requests' = 0
    /\ model_calls' = model_calls + 1

\* the call returned Err(e): llm_call.rs 528-537 (initial), 606-623 (retry)
CallReturnsErr(e) ==
    /\ events' = IF sem_attempt = 0
                 THEN emit(events, PayloadEnd(FALSE))
                 ELSE emit(emit(events, RetryEnd(sem_attempt, FALSE)), PayloadEnd(FALSE))
    /\ result' = e
    /\ pc' = "done"
    /\ UNCHANGED <<invVars, backoffVars, streamVars, requests>>

\* the diagnostics filled in without the backoff time
WithDiag_noBackoff(out, attempt) ==
    [out EXCEPT !.retry_attempts = attempt,
                !.transport_retries = transport_retries]

\* `output` with the counters of the call stored in its diagnostics
WithDiag(out, attempt) ==
    [out EXCEPT !.retry_attempts = attempt,
                !.transport_retries = transport_retries,
                !.backoff_total_ms = backoff_total_ms]

\* invoke returns Ok(output): llm_call.rs 660-668
Finish(evs, out) ==
    /\ events' = emit(evs, PayloadEnd(TRUE))
    /\ output' = out
    /\ result' = OkResult
    /\ pc' = "done"

\* the initial call returned Ok: llm_call.rs 519-550
InitialCallReturnsOk(text) ==
    LET out == WithDiag(build_output(text), 0)
        reason == IF IsSome(config.retry)
                  THEN check_retry_needed(out, Unwrap(config.retry))
                  ELSE None
    IN  IF IsSome(reason) /\ Unwrap(config.retry).max_retries >= 1
        THEN /\ output' = out
             /\ retry_reason' = reason
             /\ messages' = <<UserTurn(Prompt)>>
             /\ temp_offset' = 0
             /\ sem_attempt' = 1
             /\ pc' = "retry_top"
             /\ UNCHANGED <<events, result>>
        ELSE /\ Finish(events, out)
             /\ retry_reason' = reason
             /\ messages' = IF IsSome(reason) THEN <<UserTurn(Prompt)>> ELSE messages
             /\ UNCHANGED <<temp_offset, sem_attempt>>

\* retry call `sem_attempt` returned Ok: llm_call.rs 598-605, 626-656
RetryCallReturnsOk(text) ==
    LET out == WithDiag(build_output(text), sem_attempt)
        reason == check_retry_needed(out, Unwrap(config.retry))
    IN  /\ retry_reason' = reason
        /\ IF ~IsSome(reason)
           THEN /\ Finish(emit(events, RetryEnd(sem_attempt, TRUE)), out)
                /\ UNCHANGED sem_attempt
           ELSE IF sem_attempt = Unwrap(config.retry).max_retries
           THEN /\ Finish(emit(events, RetryEnd(sem_attempt, FALSE)), out)
                /\ UNCHANGED sem_attempt
           ELSE /\ output' = out
                /\ sem_attempt' = sem_attempt + 1
                /\ pc' = "retry_top"
                /\ UNCHANGED <<events, result>>
        /\ UNCHANGED <<messages, temp_offset>>

CallReturnsOk(text) ==
    /\ response' = text
    /\ IF sem_attempt = 0 THEN InitialCallReturnsOk(text) ELSE RetryCallReturnsOk(text)
    /\ UNCHANGED <<request, model_calls, backoffVars, streamVars, requests>>

----------------------------------------------------------------------------
(* Actions *)

\* another task sets the flag
Cancel ==
    /\ UNCHANGED <<outVars, chainVars, libVars>>
    /\ pc /= "done"
    /\ ~cancel
    /\ cancel' = TRUE
    /\ UNCHANGED <<config, pc, events, result, invVars, backoffVars, streamVars, requests>>
    /\ Heard("Cancel", 0, None, None)

\* invoke, up to the call of the backoff controller: llm_call.rs 490-517
Invoke ==
    /\ UNCHANGED <<outVars, chainVars, libVars>>
    /\ pc = "idle"
    /\ IF is_cancelled
       THEN /\ result' = Cancelled
            /\ pc' = "done"
            /\ UNCHANGED <<events, invVars, backoffVars>>
       ELSE /\ events' = emit(events, PayloadStart)
            /\ request' = [prompt |-> Prompt, messages |-> << >>,
                           temperature |-> config.temperature, stream |-> config.streaming]
            /\ StartCall
            /\ pc' = "backoff"
            /\ UNCHANGED <<result, output, sem_attempt, retry_reason, messages, temp_offset,
                           response>>
    /\ UNCHANGED <<config, cancel, streamVars, requests>>
    /\ Heard("Invoke", 0, None, None)

\* a retry dispatched the way the payload is configured
RetryStream_asConfigured == config.streaming

\* `stream: false, // retries always non-streaming`
RetryStream == FALSE

\* one more iteration of the retry loop, up to the call: llm_call.rs 552-597
RetryTop ==
    /\ UNCHANGED <<outVars, chainVars, libVars>>
    /\ pc = "retry_top"
    /\ IF is_cancelled
       THEN /\ result' = Cancelled
            /\ pc' = "done"
            /\ UNCHANGED <<events, invVars, backoffVars>>
       ELSE LET reason == IF IsSome(retry_reason) THEN Unwrap(retry_reason) ELSE ""
                msgs == messages \o <<AssistantTurn(output.raw_response),
                                      UserTurn(Correction(reason))>>
                offset == IF Unwrap(config.retry).cool_down THEN temp_offset + 2 ELSE temp_offset
            IN  /\ retry_reason' = None
                /\ events' = emit(events, RetryStart(sem_attempt, reason))
                /\ messages' = msgs
                /\ temp_offset' = offset
                /\ request' = [prompt |-> Prompt, messages |-> msgs,
                               temperature |-> Max(config.temperature - offset, 0),
                               stream |-> RetryStream]
                /\ StartCall
                /\ pc' = "backoff"
                /\ UNCHANGED <<result, output, sem_attempt, response>>
    /\ UNCHANGED <<config, cancel, streamVars, requests>>
    /\ Heard("RetryTop", 0, None, None)

\* Backend::complete / complete_streaming is called
IssueRequest ==
    /\ requests' = requests + 1
    /\ call_requests' = call_requests + 1
    /\ accumulated' = << >>
    /\ pc' = "in_flight"
    /\ UNCHANGED <<events, result, invVars, bo_attempt, last_error, transport_retries,
                   backoff_total_ms, stream_rest>>

\* top of the with_backoff loop: backend/mod.rs 185-218, 276-307
BackoffAttempt ==
    /\ UNCHANGED <<outVars, chainVars, libVars>>
    /\ pc = "backoff"
    /\ IF CancelledBeforeAttempt
       THEN CallReturnsErr(Cancelled) /\ Heard("BackoffAttempt", 0, None, None)
       ELSE IF bo_attempt = 0
       THEN IssueRequest /\ Heard("BackoffAttempt", 0, None, None)
       ELSE \E delay \in BackoffDelays(config.backoff, bo_attempt, last_error) :
                /\ transport_retries' = bo_attempt
                /\ backoff_total_ms' = backoff_total_ms + delay
                /\ events' = emit(events, TransportRetry(bo_attempt, delay))
                /\ pc' = "sleeping"
                /\ UNCHANGED <<result, invVars, bo_attempt, last_error, call_requests,
                               streamVars, requests>>
                /\ Heard("BackoffAttempt", delay, None, None)
    /\ UNCHANGED <<config, cancel>>

\* the sleep is over: backend/mod.rs 220-228, 309-318
Wake ==
    /\ UNCHANGED <<outVars, chainVars, libVars>>
    /\ pc = "sleeping"
    /\ IF CancelledAfterSleep THEN CallReturnsErr(Cancelled) ELSE IssueRequest
    /\ UNCHANGED <<config, cancel>>
    /\ Heard("Wake", 0, None, None)

\* the attempt returned Err(e): backend/mod.rs 230-236, 321-327
AttemptFailed(e) ==
    IF ShouldRetry(bo_attempt, e, config.backoff)
    THEN /\ last_error' = Some(e)
         /\ bo_attempt' = bo_attempt + 1
         /\ pc' = "backoff"
         /\ UNCHANGED <<events, result, invVars, transport_retries, backoff_total_ms,
                        call_requests, streamVars, requests>>
    ELSE CallReturnsErr(e)

\* Backend::complete returns: ollama.rs 129-152, 182-226
Complete ==
    /\ UNCHANGED <<outVars, chainVars, libVars>>
    /\ pc = "in_flight"
    /\ ~request.stream
    /\ \/ AttemptFailed(ConnectFailure) /\ Heard("Complete", 0, Some(ConnectFailure), None)
       \/ \E e \in HttpFailures : AttemptFailed(e) /\ Heard("Complete", 0, Some(e), None)
       \/ AttemptFailed(RequestError) /\ Heard("Complete", 0, Some(RequestError), None)
       \/ \E text \in Responses : CallReturnsOk(text) /\ Heard("Complete", 0, None, Some(text))
    /\ UNCHANGED <<config, cancel>>

\* complete_streaming gets the response head: ollama.rs 250-273
StreamOpen ==
    /\ UNCHANGED <<outVars, chainVars, libVars>>
    /\ pc = "in_flight"
    /\ request.stream
    /\ \/ AttemptFailed(ConnectFailure) /\ Heard("StreamOpen", 0, Some(ConnectFailure), None)
       \/ \E e \in HttpFailures : AttemptFailed(e) /\ Heard("StreamOpen", 0, Some(e), None)
       \/ \E text \in Responses :
            /\ stream_rest' = text
            /\ pc' = "streaming"
            /\ UNCHANGED <<events, result, invVars, backoffVars, accumulated, requests>>
            /\ Heard("StreamOpen", 0, None, Some(text))
    /\ UNCHANGED <<config, cancel>>

\* a token arrives: ollama.rs 275-296
StreamToken ==
    /\ UNCHANGED <<outVars, chainVars, libVars>>
    /\ pc = "streaming"
    /\ stream_rest /= << >>
    /\ accumulated' = Append(accumulated, Head(stream_rest))
    /\ events' = emit(events, Token(<<Head(stream_rest)>>))
    /\ stream_rest' = Tail(stream_rest)
    /\ UNCHANGED <<config, cancel, pc, result, invVars, backoffVars, requests>>
    /\ Heard("StreamToken", 0, None, None)

\* reading the next chunk fails: ollama.rs 276
StreamFail ==
    /\ UNCHANGED <<outVars, chainVars, libVars>>
    /\ pc = "streaming"
    /\ AttemptFailed(RequestError)
    /\ UNCHANGED <<config, cancel>>
    /\ Heard("StreamFail", 0, None, None)

\* the stream ends: ollama.rs 298-323
StreamEnd ==
    /\ UNCHANGED <<outVars, chainVars, libVars>>
    /\ pc = "streaming"
    /\ stream_rest = << >>
    /\ CallReturnsOk(accumulated)
    /\ UNCHANGED <<config, cancel>>
    /\ Heard("StreamEnd", 0, None, None)

----------------------------------------------------------------------------
(* build_output on its own, over raw texts with reasoning tags and blanks *)

TextTokens == {"<think>", "</think>", " ", "a", "b"}

Texts == UNION { [1..n -> TextTokens] : n \in 0..MaxTextLen }

\* LlmCall::new(name, template): non-streaming, no retry; ExecCtx without backoff
PlainConfig ==
    [streaming |-> FALSE, temperature |-> 7, retry |-> None, backoff |-> BackoffPolicy(0)]

OutputInit ==
    /\ config = PlainConfig
    /\ cancel = FALSE
    /\ CallInit
    /\ ChainIdle
    /\ LibIdle
    /\ model_text \in Texts
    /\ built = NotBuilt

\* self.build_output(response.text): llm_call.rs 366-478
BuildOutput ==
    /\ built.state = "pending"
    /\ built' = IF extract_thinking(model_text).panic
                THEN [state |-> "panicked", output |-> NoOutput]
                ELSE [state |-> "returned", output |-> build_output(model_text)]
    /\ UNCHANGED <<model_text, cancel, callVars, chainVars, libVars>>

OutputNext == BuildOutput

OutputSpec == OutputInit /\ [][OutputNext]_vars

----------------------------------------------------------------------------
(* Chain::execute_all over payloads whose results the environment chooses *)

StageFailed(stage, cause) ==
    [kind |-> "StageFailed", status |-> 0, retry_after |-> None, msg |-> <<stage, cause.msg>>]

InvalidConfig(m) == [kind |-> "InvalidConfig", status |-> 0, retry_after |-> None, msg |-> m]

\* the structured values that travel along the chain
Values == {"x", "y"}

StepName(i) == <<"step", i>>

Chains == { [i \in 1..n |-> StepName(i)] : n \in 0..MaxChainLen }

\* what a payload can return: an output, or an error
StepOutputs == { [value |-> v, raw_response |-> <<"raw", v>>] : v \in Values }
StepErrors == { Other("step failed"), Cancelled }

ChainOk(outs) == [kind |-> "ok", error |-> NoResult, outputs |-> outs]
ChainErr(e) == [kind |-> "err", error |-> e, outputs |-> << >>]

\* the next step's input left as it was
NextInput_stale(cur, out) == cur

\* `current = output.value.clone()`
NextInput(cur, out) == out.value

ChainInit ==
    /\ config = PlainConfig
    /\ cancel \in BOOLEAN
    /\ CallInit
    /\ OutputIdle
    /\ LibIdle
    /\ chain = << >>
    /\ chain_input \in Values
    /\ chain_pc = "idle"
    /\ step = 0
    /\ current = ""
    /\ outputs = << >>
    /\ step_inputs = << >>
    /\ chain_result = NoChainResult

\* another task sets the flag while the chain runs
ChainCancel ==
    /\ chain_pc /= "done"
    /\ ~cancel
    /\ cancel' = TRUE
    /\ UNCHANGED <<callVars, outVars, chainVars, libVars>>

\* Chain::push on the chain under construction: chain.rs 51-54
Push ==
    /\ chain_pc = "idle"
    /\ Append(chain, StepName(Len(chain) + 1)) \in Chains
    /\ chain' = Append(chain, StepName(Len(chain) + 1))
    /\ UNCHANGED <<chain_input, chain_pc, step, current, outputs, step_inputs, chain_result,
                   cancel, callVars, outVars, libVars>>

\* execute_all up to the loop: chain.rs 75-83
ExecuteAll ==
    /\ chain_pc = "idle"
    /\ IF chain = << >>
       THEN /\ chain_result' = ChainErr(InvalidConfig("Chain has no payloads"))
            /\ chain_pc' = "done"
            /\ UNCHANGED <<step, current, outputs>>
       ELSE /\ outputs' = << >>
            /\ current' = chain_input
            /\ step' = 1
            /\ chain_pc' = "loop"
            /\ UNCHANGED chain_result
    /\ UNCHANGED <<chain, chain_input, step_inputs, cancel, callVars, outVars, libVars>>

\* top of the loop body, up to the call of the payload: chain.rs 85-87
StepStart ==
    /\ chain_pc = "loop"
    /\ IF check_cancelled
       THEN /\ chain_result' = ChainErr(Cancelled)
            /\ chain_pc' = "done"
            /\ UNCHANGED step_inputs
       ELSE /\ step_inputs' = Append(step_inputs, current)
            /\ chain_pc' = "invoking"
            /\ UNCHANGED chain_result
    /\ UNCHANGED <<chain, chain_input, step, current, outputs, cancel, callVars, outVars, libVars>>

\* the payload returned Ok(output): chain.rs 87-92
StepReturnsOk ==
    /\ chain_pc = "invoking"
    /\ \E out \in StepOutputs :
          /\ current' = NextInput(current, out)
          /\ outputs' = Append(outputs, out)
          /\ IF step = Len(chain)
             THEN /\ chain_result' = ChainOk(outputs')
                  /\ chain_pc' = "done"
                  /\ UNCHANGED step
             ELSE /\ step' = step + 1
                  /\ chain_pc' = "loop"
                  /\ UNCHANGED chain_result
    /\ UNCHANGED <<chain, chain_input, step_inputs, cancel, callVars, outVars, libVars>>

\* the payload's error set aside and the loop carried on
StepReturnsErr_continue ==
    /\ chain_pc = "invoking"
    /\ IF step = Len(chain)
       THEN /\ chain_result' = ChainOk(outputs)
            /\ chain_pc' = "done"
            /\ UNCHANGED step
       ELSE /\ step' = step + 1
            /\ chain_pc' = "loop"
            /\ UNCHANGED chain_result
    /\ UNCHANGED <<chain, chain_input, current, outputs, step_inputs, cancel,
                   callVars, outVars, libVars>>

\* the payload returned Err(e), propagated by `?`: chain.rs 87
StepReturnsErr ==
    /\ chain_pc = "invoking"
    /\ \E e \in StepErrors :
          /\ chain_result' = ChainErr(e)
          /\ chain_pc' = "done"
    /\ UNCHANGED <<chain, chain_input, step, current, outputs, step_inputs, cancel,
                   callVars, outVars, libVars>>

ChainNext ==
    \/ ChainCancel
    \/ Push
    \/ ExecuteAll
    \/ StepStart
    \/ StepReturnsOk
    \/ StepReturnsErr

ChainSpec == ChainInit /\ [][ChainNext]_vars

----------------------------------------------------------------------------
(* One model call under varied backoff policies: jitter modes, multipliers *)
(* below and above one, Retry-After honoured or not                        *)

JitterStrategies == {"None", "Full", "Equal", "Decorrelated"}

\* multipliers 0.5, 1.0, 1.5, 2.0
Multipliers == {5, 10, 15, 20}

\* 3 ms initial delay, 5 ms cap; the random modes with the doubling policy
BackoffPolicies ==
    { p \in [max_retries : {MaxTransportRetries}, initial_delay : {3},
             multiplier : Multipliers, max_delay : {5}, jitter : JitterStrategies,
             retryable_statuses : {BackoffStandard.retryable_statuses},
             respect_retry_after : BOOLEAN] :
        p.jitter /= "None" => (p.multiplier = 20 /\ p.respect_retry_after) }

BackoffInit ==
    /\ config \in [streaming : {FALSE}, temperature : {7}, retry : {None},
                    backoff : BackoffPolicies]
    /\ cancel = FALSE
    /\ CallInit
    /\ OutputIdle
    /\ ChainIdle
    /\ LibIdle

BackoffNext ==
    \/ Cancel
    \/ Invoke
    \/ BackoffAttempt
    \/ Wake
    \/ Complete

BackoffSpec == BackoffInit /\ [][BackoffNext]_vars

----------------------------------------------------------------------------
(* output_parser::extract: stripping reasoning blocks. Text is a sequence  *)
(* of characters here, so that a tag can be cut and joined                 *)

MaxPieces == 4

OpenThink == <<"<", "t", "h", "i", "n", "k", ">">>
CloseThink == <<"<", "/", "t", "h", "i", "n", "k", ">">>
OpenThinking == <<"<", "t", "h", "i", "n", "k", "i", "n", "g", ">">>
CloseThinking == <<"<", "/", "t", "h", "i", "n", "k", "i", "n", "g", ">">>

\* str::find with a string pattern: 1-based index of the first match, 0 if none
FindSub(text, pat) ==
    LET hits == {i \in 1..(Len(text) - Len(pat) + 1) : SubSeq(text, i, i + Len(pat) - 1) = pat}
    IN  IF hits = {} THEN 0 ELSE CHOOSE i \in hits : \A j \in hits : i <= j

RECURSIVE strip_tag_variant(_, _, _)
strip_tag_variant(text, open, close) ==
    LET start == FindSub(text, open)
        end_offset == FindSub(SubSeq(text, start, Len(text)), close)
        end == start + (end_offset - 1) + Len(close)
    IN  IF start = 0 THEN text
        ELSE IF end_offset > 0
             THEN strip_tag_variant(SubSeq(text, 1, start - 1) \o SubSeq(text, end, Len(text)),
                                    open, close)
             ELSE SubSeq(text, 1, start - 1)

strip_think_tags(text) ==
    strip_tag_variant(strip_tag_variant(text, OpenThink, CloseThink), OpenThinking, CloseThinking)

\* the pieces texts are put together from: whole tags, cut tags, plain text
StripPieces ==
    {OpenThink, CloseThink, OpenThinking, CloseThinking,
     <<"<", "t", "h", "i">>, <<"n", "k", ">">>, <<"a">>, <<" ">>}

RECURSIVE Concats(_, _)
Concats(pieces, n) ==
    IF n = 0 THEN {<< >>}
    ELSE LET shorter == Concats(pieces, n - 1)
         IN  shorter \cup {t \o p : t \in shorter, p \in pieces}

StripInit ==
    /\ config = PlainConfig
    /\ cancel = FALSE
    /\ CallInit
    /\ OutputIdle
    /\ ChainIdle
    /\ NdjsonIdle /\ SseIdle /\ ParserNew
    /\ PureIdle
    /\ strip_input \in Concats(StripPieces, MaxPieces)
    /\ strip_output = None
    /\ preprocessed = << >>

StripThinkTags ==
    /\ strip_output = None
    /\ strip_output' = Some(strip_think_tags(strip_input))
    /\ UNCHANGED <<strip_input, preprocessed, cancel, callVars, outVars, chainVars, pureVars, ndVars,
                   sseVars, parserVars>>

\* preprocess: strip the reasoning blocks, then trim
preprocess(text) == Trim(strip_think_tags(text))

\* preprocess called on the text, then on what it returned
Preprocess ==
    /\ Len(preprocessed) < 2
    /\ preprocessed' = Append(preprocessed,
                              preprocess(IF preprocessed = << >> THEN strip_input
                                         ELSE preprocessed[Len(preprocessed)]))
    /\ UNCHANGED <<strip_input, strip_output, cancel, callVars, outVars, chainVars, pureVars, ndVars,
                   sseVars, parserVars>>

StripNext ==
    \/ StripThinkTags
    \/ Preprocess

StripSpec == StripInit /\ [][StripNext]_vars

----------------------------------------------------------------------------
(* JSON text over characters: the values are the number 1 and its         *)
(* repetitions, strings without escapes, arrays and objects                *)

Digits == {"1"}

\* the first index from i on that holds no whitespace (Len(t) + 1 if none)
RECURSIVE SkipWs(_, _)
SkipWs(t, i) ==
    IF 1 <= i /\ i <= Len(t) /\ t[i] \in Whitespace THEN SkipWs(t, i + 1) ELSE i

\* the index after the digits that start at i
RECURSIVE ParseNumber(_, _)
ParseNumber(t, i) ==
    IF i <= Len(t) /\ t[i] \in Digits THEN ParseNumber(t, i + 1) ELSE i

\* the index after the string whose opening quote is at i, 0 if it is not closed
\* or holds a line break
ParseString(t, i) ==
    LET closing == {j \in (i + 1)..Len(t) : t[j] = "\""}
        j == CHOOSE j \in closing : \A k \in closing : j <= k
    IN  IF closing = {} THEN 0
        ELSE IF \E k \in (i + 1)..(j - 1) : t[k] = "\n" THEN 0
        ELSE j + 1

\* the index after the JSON value that starts at i, 0 if there is none
RECURSIVE ParseValue(_, _)
RECURSIVE ParseElems(_, _)
RECURSIVE ParseMembers(_, _)
ParseValue(t, i) ==
    IF i > Len(t) THEN 0
    ELSE CASE t[i] = "\"" -> ParseString(t, i)
           [] t[i] \in Digits -> ParseNumber(t, i)
           [] t[i] = "[" ->
                LET k == SkipWs(t, i + 1)
                IN  IF k <= Len(t) /\ t[k] = "]" THEN k + 1 ELSE ParseElems(t, k)
           [] t[i] = "{" ->
                LET k == SkipWs(t, i + 1)
                IN  IF k <= Len(t) /\ t[k] = "}" THEN k + 1 ELSE ParseMembers(t, k)
           [] OTHER -> 0

\* the elements of an array from i on, up to the closing bracket
ParseElems(t, i) ==
    LET v == ParseValue(t, i)
        m == SkipWs(t, v)
    IN  IF v = 0 \/ m > Len(t) THEN 0
        ELSE IF t[m] = "," THEN ParseElems(t, SkipWs(t, m + 1))
        ELSE IF t[m] = "]" THEN m + 1
        ELSE 0

\* the members of an object from i on, up to the closing brace
ParseMembers(t, i) ==
    LET key == IF i <= Len(t) /\ t[i] = "\"" THEN ParseString(t, i) ELSE 0
        c == SkipWs(t, key)
        v == IF key > 0 /\ c <= Len(t) /\ t[c] = ":" THEN ParseValue(t, SkipWs(t, c + 1)) ELSE 0
        m == SkipWs(t, v)
    IN  IF v = 0 \/ m > Len(t) THEN 0
        ELSE IF t[m] = "," THEN ParseMembers(t, SkipWs(t, m + 1))
        ELSE IF t[m] = "}" THEN m + 1
        ELSE 0

\* serde_json::from_str::<Value>(t).is_ok()
IsJson(t) ==
    LET e == ParseValue(t, SkipWs(t, 1))
    IN  e > 0 /\ SkipWs(t, e) > Len(t)

\* the text without the whitespace outside its strings
RECURSIVE Compact(_, _)
Compact(t, in_string) ==
    IF t = << >> THEN << >>
    ELSE IF Head(t) = "\"" THEN <<Head(t)>> \o Compact(Tail(t), ~in_string)
    ELSE IF ~in_string /\ Head(t) \in Whitespace THEN Compact(Tail(t), in_string)
    ELSE <<Head(t)>> \o Compact(Tail(t), in_string)

\* serde_json::from_str::<Value>(t): the value, written without whitespace
from_str(t) == IF IsJson(t) THEN Some(Compact(t, FALSE)) ELSE None

----------------------------------------------------------------------------
(* output_parser::streaming::auto_complete_json                            *)

\* str::rfind with a character: 1-based index of the last match, 0 if none
RFind(t, ch) ==
    LET hits == {i \in 1..Len(t) : t[i] = ch}
    IN  IF hits = {} THEN 0 ELSE CHOOSE i \in hits : \A j \in hits : i >= j

EndsWith(t, ch) == t /= << >> /\ t[Len(t)] = ch

DropLast(t) == SubSeq(t, 1, Len(t) - 1)

\* the `for ch in trimmed.chars()` loop: the closers expected and whether the
\* text ends inside a string
RECURSIVE ScanDelimiters(_, _, _)
ScanDelimiters(t, stack, in_string) ==
    IF t = << >> THEN [stack |-> stack, in_string |-> in_string]
    ELSE LET ch == Head(t)
         IN  IF ch = "\"" THEN ScanDelimiters(Tail(t), stack, ~in_string)
             ELSE IF in_string THEN ScanDelimiters(Tail(t), stack, in_string)
             ELSE CASE ch = "{" -> ScanDelimiters(Tail(t), Append(stack, "}"), in_string)
                    [] ch = "[" -> ScanDelimiters(Tail(t), Append(stack, "]"), in_string)
                    [] ch \in {"}", "]"} ->
                         IF stack /= << >> /\ stack[Len(stack)] = ch
                         THEN ScanDelimiters(Tail(t), DropLast(stack), in_string)
                         ELSE ScanDelimiters(Tail(t), stack, in_string)
                    [] OTHER -> ScanDelimiters(Tail(t), stack, in_string)

\* the `loop` that strips trailing commas and dangling `"key":`
RECURSIVE StripDangling(_)
StripDangling(json) ==
    LET t == TrimEnd(json)
        without_colon == TrimEnd(DropLast(t))
        quote_pos == RFind(without_colon, "\"")
        open_pos == RFind(SubSeq(without_colon, 1, quote_pos - 1), "\"")
        before_key == TrimEnd(SubSeq(without_colon, 1, open_pos - 1))
    IN  IF EndsWith(t, ",") THEN StripDangling(DropLast(t))
        ELSE IF EndsWith(t, ":")
             THEN IF quote_pos > 0 /\ open_pos > 0
                  THEN StripDangling(IF EndsWith(before_key, ",") THEN DropLast(before_key)
                                     ELSE before_key)
                  ELSE json
        ELSE json

\* the orphan key check: a quoted string after a comma, inside an object
StripOrphanKey(json, stack) ==
    LET t == TrimEnd(json)
        inner == DropLast(t)
        open_pos == RFind(inner, "\"")
        before == TrimEnd(SubSeq(inner, 1, open_pos - 1))
    IN  IF stack /= << >> /\ stack[Len(stack)] = "}" /\ EndsWith(t, "\"")
           /\ open_pos > 0 /\ EndsWith(before, ",")
        THEN DropLast(before)
        ELSE json

\* `while let Some(closer) = stack.pop()`
RECURSIVE CloseAll(_, _)
CloseAll(json, stack) ==
    IF stack = << >> THEN json
    ELSE CloseAll(Append(json, stack[Len(stack)]), DropLast(stack))

auto_complete_json(input) ==
    LET trimmed == Trim(strip_think_tags(input))
        scan == ScanDelimiters(trimmed, << >>, FALSE)
        closed == IF scan.in_string THEN Append(trimmed, "\"") ELSE trimmed
        completed == CloseAll(StripOrphanKey(StripDangling(closed), scan.stack), scan.stack)
    IN  IF trimmed = << >> THEN None
        ELSE IF IsJson(trimmed) THEN Some(trimmed)
        ELSE IF Head(trimmed) \notin {"{", "["} THEN None
        ELSE IF IsJson(completed) THEN Some(completed)
        ELSE None

----------------------------------------------------------------------------
(* output_parser::streaming::StreamingJsonParser                           *)

MaxParserCalls == 4

\* the texts handed to push: pieces of `{"a":1}` and `[1,1]`, a letter that
\* is no JSON, a blank, and the empty text
ParserPieces ==
    {<< >>, <<"{", "\"", "a", "\"">>, <<":">>, <<"1">>, <<",">>, <<"}">>, <<"[">>, <<"]">>,
     <<"x">>, <<" ">>}

\* try_parse that forgets the cached value when the buffer does not parse
try_parse_forgetful(buffer, cached, parsed_len) ==
    LET trimmed == Trim(buffer)
        completed == auto_complete_json(trimmed)
    IN  IF Len(buffer) = parsed_len THEN [cached_value |-> cached, last_parsed_len |-> parsed_len]
        ELSE IF IsJson(trimmed)
             THEN [cached_value |-> from_str(trimmed), last_parsed_len |-> Len(buffer)]
        ELSE IF IsSome(completed) /\ IsJson(Unwrap(completed))
             THEN [cached_value |-> from_str(Unwrap(completed)), last_parsed_len |-> Len(buffer)]
        ELSE [cached_value |-> None, last_parsed_len |-> Len(buffer)]

\* try_parse: the new cached_value and last_parsed_len
try_parse(buffer, cached, parsed_len) ==
    LET trimmed == Trim(buffer)
        completed == auto_complete_json(trimmed)
    IN  IF Len(buffer) = parsed_len THEN [cached_value |-> cached, last_parsed_len |-> parsed_len]
        ELSE IF IsJson(trimmed)
             THEN [cached_value |-> from_str(trimmed), last_parsed_len |-> Len(buffer)]
        ELSE IF IsSome(completed) /\ IsJson(Unwrap(completed))
             THEN [cached_value |-> from_str(Unwrap(completed)), last_parsed_len |-> Len(buffer)]
        ELSE [cached_value |-> cached, last_parsed_len |-> Len(buffer)]

ParserInit ==
    /\ config = PlainConfig
    /\ cancel = FALSE
    /\ CallInit
    /\ OutputIdle
    /\ ChainIdle
    /\ StripIdle /\ NdjsonIdle /\ SseIdle
    /\ PureIdle
    /\ ParserNew

\* StreamingJsonParser::push
ParserPush(text) ==
    /\ parser_calls < MaxParserCalls
    /\ LET parsed == try_parse(parser_buffer \o text, cached_value, last_parsed_len)
       IN  /\ parser_buffer' = parser_buffer \o text
           /\ cached_value' = parsed.cached_value
           /\ last_parsed_len' = parsed.last_parsed_len
    /\ pushed' = Append(pushed, parser_buffer')
    /\ parser_calls' = parser_calls + 1
    /\ UNCHANGED <<cancel, callVars, outVars, chainVars, pureVars, stripVars, ndVars, sseVars>>

\* StreamingJsonParser::clear
ParserClear ==
    /\ parser_calls < MaxParserCalls
    /\ parser_buffer' = << >>
    /\ cached_value' = None
    /\ last_parsed_len' = 0
    /\ pushed' = << >>
    /\ parser_calls' = parser_calls + 1
    /\ UNCHANGED <<cancel, callVars, outVars, chainVars, pureVars, stripVars, ndVars, sseVars>>

ParserNext ==
    \/ \E text \in ParserPieces : ParserPush(text)
    \/ ParserClear

ParserSpec == ParserInit /\ [][ParserNext]_vars

----------------------------------------------------------------------------
(* streaming::StreamingDecoder (NDJSON). A chunk is a sequence of bytes:   *)
(* an ASCII byte is written as its character, "C3" "A9" are the two bytes  *)
(* of the UTF-8 encoding of one accented letter                            *)

MaxStreamPieces == 3

\* a JSON string holding the two-byte letter
AccentedString == <<"\"", "C3", "A9", "\"">>

\* String::from_utf8_lossy: the characters of a chunk; a byte sequence that is
\* no complete character becomes U+FFFD
RECURSIVE from_utf8_lossy(_)
from_utf8_lossy(chunk) ==
    IF chunk = << >> THEN << >>
    ELSE IF Head(chunk) = "C3" /\ Len(chunk) >= 2 /\ chunk[2] = "A9"
         THEN <<"e-acute">> \o from_utf8_lossy(Tail(Tail(chunk)))
    ELSE IF Head(chunk) \in {"C3", "A9"}
         THEN <<"U+FFFD">> \o from_utf8_lossy(Tail(chunk))
    ELSE <<Head(chunk)>> \o from_utf8_lossy(Tail(chunk))

\* decode: the `while let Some(pos) = self.buffer.find('\n')` loop: the buffer
\* left and the values of the lines drained
RECURSIVE DrainLines(_, _)
DrainLines(buffer, values) ==
    LET pos == Find(buffer, "\n")
        line == Trim(SubSeq(buffer, 1, pos))
        rest == SubSeq(buffer, pos + 1, Len(buffer))
    IN  IF pos = 0 THEN [buffer |-> buffer, values |-> values]
        ELSE IF line /= << >> /\ IsJson(line)
             THEN DrainLines(rest, Append(values, Unwrap(from_str(line))))
        ELSE DrainLines(rest, values)

\* StreamingDecoder::decode
decode(buffer, chunk) == DrainLines(buffer \o from_utf8_lossy(chunk), << >>)

\* StreamingDecoder::flush: the value returned, if any
flush(buffer) ==
    LET remaining == Trim(buffer)
        completed == auto_complete_json(remaining)
    IN  IF remaining = << >> THEN None
        ELSE IF IsJson(remaining) THEN from_str(remaining)
        ELSE IF IsSome(completed) THEN from_str(Unwrap(completed))
        ELSE None

\* what the streams are put together from
NdjsonPieces == {<<"1">>, AccentedString, <<"[", "1">>, <<"]">>, <<"\n">>, <<"x">>}

NdjsonInit ==
    /\ config = PlainConfig
    /\ cancel = FALSE
    /\ CallInit
    /\ OutputIdle
    /\ ChainIdle
    /\ StripIdle /\ SseIdle /\ ParserNew
    /\ PureIdle
    /\ nd_input \in Concats(NdjsonPieces, MaxStreamPieces)
    /\ nd_rest = nd_input
    /\ nd_buffer = << >>
    /\ nd_values = << >>
    /\ nd_flushed = FALSE

\* the transport delivers the next n bytes as one chunk
NdjsonDecode(n) ==
    /\ ~nd_flushed
    /\ n \in 1..Len(nd_rest)
    /\ LET decoded == decode(nd_buffer, SubSeq(nd_rest, 1, n))
       IN  /\ nd_buffer' = decoded.buffer
           /\ nd_values' = nd_values \o decoded.values
    /\ nd_rest' = SubSeq(nd_rest, n + 1, Len(nd_rest))
    /\ UNCHANGED <<nd_input, nd_flushed, cancel, callVars, outVars, chainVars, pureVars, stripVars,
                   sseVars, parserVars>>

\* the stream has ended
NdjsonFlush ==
    /\ ~nd_flushed
    /\ nd_rest = << >>
    /\ nd_values' = nd_values \o flush(nd_buffer)
    /\ nd_buffer' = << >>
    /\ nd_flushed' = TRUE
    /\ UNCHANGED <<nd_input, nd_rest, cancel, callVars, outVars, chainVars, pureVars, stripVars,
                   sseVars, parserVars>>

NdjsonNext ==
    \/ \E n \in 1..(4 * MaxStreamPieces) : NdjsonDecode(n)
    \/ NdjsonFlush

NdjsonSpec == NdjsonInit /\ [][NdjsonNext]_vars

----------------------------------------------------------------------------
(* backend::sse::SseDecoder                                                *)

DataSpacePrefix == <<"d", "a", "t", "a", ":", " ">>
DataPrefix == <<"d", "a", "t", "a", ":">>
EventPrefix == <<"e", "v", "e", "n", "t", ":">>
Done == <<"[", "D", "O", "N", "E", "]">>

\* str::starts_with
StartsWith(t, pat) == Len(t) >= Len(pat) /\ SubSeq(t, 1, Len(pat)) = pat

\* line.strip_prefix("data: ").or_else(|| line.strip_prefix("data:"))
StripDataPrefix(line) ==
    IF StartsWith(line, DataSpacePrefix) THEN Some(SubSeq(line, Len(DataSpacePrefix) + 1, Len(line)))
    ELSE IF StartsWith(line, DataPrefix) THEN Some(SubSeq(line, Len(DataPrefix) + 1, Len(line)))
    ELSE None

\* the values one trimmed line yields in decode: none or one
SseLineValues(line) ==
    LET data == Trim(Unwrap(StripDataPrefix(line)))
    IN  IF line = << >> \/ StartsWith(line, EventPrefix) THEN << >>
        ELSE IF IsSome(StripDataPrefix(line)) /\ data /= Done /\ IsJson(data)
             THEN <<Unwrap(from_str(data))>>
        ELSE << >>

\* SseDecoder::decode: the `while let Some(pos) = self.buffer.find('\n')` loop
RECURSIVE SseDrainLines(_, _)
SseDrainLines(buffer, values) ==
    LET pos == Find(buffer, "\n")
        line == Trim(SubSeq(buffer, 1, pos))
        rest == SubSeq(buffer, pos + 1, Len(buffer))
    IN  IF pos = 0 THEN [buffer |-> buffer, values |-> values]
        ELSE SseDrainLines(rest, values \o SseLineValues(line))

\* SseDecoder::decode
sse_decode(buffer, chunk) == SseDrainLines(buffer \o from_utf8_lossy(chunk), << >>)

\* SseDecoder::flush: the values of the data lines left in the buffer
RECURSIVE sse_flush(_)
sse_flush(remaining) ==
    LET pos == Find(remaining, "\n")
        line == Trim(IF pos = 0 THEN remaining ELSE SubSeq(remaining, 1, pos - 1))
        data == Trim(Unwrap(StripDataPrefix(line)))
        found == IF IsSome(StripDataPrefix(line)) /\ data /= Done /\ IsJson(data)
                 THEN <<Unwrap(from_str(data))>> ELSE << >>
    IN  IF remaining = << >> THEN << >>
        ELSE IF pos = 0 THEN found
        ELSE found \o sse_flush(SubSeq(remaining, pos + 1, Len(remaining)))

\* what the streams are put together from
SsePieces ==
    {DataSpacePrefix, DataPrefix, EventPrefix, Done, <<"1">>, AccentedString, <<"\n">>}

SseInit ==
    /\ config = PlainConfig
    /\ cancel = FALSE
    /\ CallInit
    /\ OutputIdle
    /\ ChainIdle
    /\ StripIdle /\ NdjsonIdle /\ ParserNew
    /\ PureIdle
    /\ sse_input \in Concats(SsePieces, MaxStreamPieces)
    /\ sse_rest = sse_input
    /\ sse_buffer = << >>
    /\ sse_values = << >>
    /\ sse_flushed = FALSE

\* the transport delivers the next n bytes as one chunk
SseDecode(n) ==
    /\ ~sse_flushed
    /\ n \in 1..Len(sse_rest)
    /\ LET decoded == sse_decode(sse_buffer, SubSeq(sse_rest, 1, n))
       IN  /\ sse_buffer' = decoded.buffer
           /\ sse_values' = sse_values \o decoded.values
    /\ sse_rest' = SubSeq(sse_rest, n + 1, Len(sse_rest))
    /\ UNCHANGED <<sse_input, sse_flushed, cancel, callVars, outVars, chainVars, pureVars, stripVars,
                   ndVars, parserVars>>

\* the stream has ended
SseFlush ==
    /\ ~sse_flushed
    /\ sse_rest = << >>
    /\ sse_values' = sse_values \o sse_flush(Trim(sse_buffer))
    /\ sse_buffer' = << >>
    /\ sse_flushed' = TRUE
    /\ UNCHANGED <<sse_input, sse_rest, cancel, callVars, outVars, chainVars, pureVars, stripVars,
                   ndVars, parserVars>>

SseNext ==
    \/ \E n \in 1..(6 * MaxStreamPieces) : SseDecode(n)
    \/ SseFlush

SseSpec == SseInit /\ [][SseNext]_vars

----------------------------------------------------------------------------
(* output_parser::extract::find_bracketed, called with '[' and ']'         *)

MaxBracketLen == 4

BracketChars == {"[", "]", "\"", "\\", "a"}

\* the `for (i, ch) in text[start..].char_indices()` loop from index i on:
\* the index of the closing delimiter that brings the depth to 0, 0 if none
RECURSIVE ScanRegion(_, _, _, _, _, _, _)
ScanRegion(text, open, close, i, depth, in_string, escape_next) ==
    IF i > Len(text) THEN 0
    ELSE LET ch == text[i]
         IN  IF escape_next THEN ScanRegion(text, open, close, i + 1, depth, in_string, FALSE)
             ELSE IF ch = "\\" /\ in_string
                  THEN ScanRegion(text, open, close, i + 1, depth, in_string, TRUE)
             ELSE IF ch = "\"" THEN ScanRegion(text, open, close, i + 1, depth, ~in_string, FALSE)
             ELSE IF in_string THEN ScanRegion(text, open, close, i + 1, depth, in_string, FALSE)
             ELSE IF ch = open THEN ScanRegion(text, open, close, i + 1, depth + 1, in_string, FALSE)
             ELSE IF ch = close
                  THEN IF depth - 1 = 0 THEN i
                       ELSE ScanRegion(text, open, close, i + 1, depth - 1, in_string, FALSE)
             ELSE ScanRegion(text, open, close, i + 1, depth, in_string, FALSE)

\* the `while scan_from < text.len()` loop
RECURSIVE FindFrom(_, _, _, _, _)
FindFrom(text, open, close, scan_from, best) ==
    LET opens == {i \in scan_from..Len(text) : text[i] = open}
        start == CHOOSE i \in opens : \A j \in opens : i <= j
        found_end == ScanRegion(text, open, close, start, 0, FALSE, FALSE)
    IN  IF scan_from > Len(text) \/ opens = {} THEN best
        ELSE IF found_end > 0
             THEN FindFrom(text, open, close, found_end + 1, Some(SubSeq(text, start, found_end)))
        ELSE best

find_bracketed(text, open, close) == FindFrom(text, open, close, 1, None)

\* all texts of up to n characters
RECURSIVE TextsUpTo(_, _)
TextsUpTo(chars, n) ==
    IF n = 0 THEN {<< >>}
    ELSE LET shorter == TextsUpTo(chars, n - 1)
         IN  shorter \cup {Append(t, c) : t \in shorter, c \in chars}

BracketInit ==
    /\ config = PlainConfig
    /\ cancel = FALSE
    /\ CallInit
    /\ OutputIdle
    /\ ChainIdle
    /\ StripIdle /\ NdjsonIdle /\ SseIdle /\ ParserNew
    /\ JsonIdle
    /\ RenderIdle
    /\ NumberIdle
    /\ ChoiceIdle
    /\ RepairIdle
    /\ bracket_text \in TextsUpTo(BracketChars, MaxBracketLen)
    /\ bracket_found = NotCalled

FindBracketed ==
    /\ ~bracket_found.called
    /\ bracket_found' = Returned(find_bracketed(bracket_text, "[", "]"))
    /\ UNCHANGED <<bracket_text, cancel, callVars, outVars, chainVars, stripVars, ndVars,
                   sseVars, parserVars, repairVars, choiceVars, numberVars, renderVars,
                   jsonVars>>

BracketNext == FindBracketed

BracketSpec == BracketInit /\ [][BracketNext]_vars

----------------------------------------------------------------------------
(* output_parser::repair::try_repair_json. The texts hold brackets, braces,*)
(* commas, the digit 1, double quotes and blanks: no comment, Python       *)
(* literal, single quote, identifier or line break, so that strip_comments,*)
(* replace_python_literals, replace_single_quotes, quote_unquoted_keys and *)
(* escape_raw_newlines return such a text as it is                         *)

MaxRepairLen == 4

RepairChars == {"[", "]", "{", "}", ",", "1", "\"", " "}

\* remove_trailing_commas: a comma outside strings is dropped when the next
\* character after whitespace is a closing delimiter
RECURSIVE remove_trailing_commas(_, _)
remove_trailing_commas(s, in_string) ==
    IF s = << >> THEN << >>
    ELSE LET ch == Head(s)
             j == SkipWs(s, 2)
         IN  IF ch = "\"" THEN <<ch>> \o remove_trailing_commas(Tail(s), ~in_string)
             ELSE IF in_string THEN <<ch>> \o remove_trailing_commas(Tail(s), in_string)
             ELSE IF ch = "," /\ j <= Len(s) /\ s[j] \in {"}", "]"}
                  THEN remove_trailing_commas(Tail(s), in_string)
             ELSE <<ch>> \o remove_trailing_commas(Tail(s), in_string)

\* close_missing_brackets: the count of `open` minus `close` outside strings
RECURSIVE OpenCount(_, _, _, _)
OpenCount(s, open, close, in_string) ==
    IF s = << >> THEN 0
    ELSE LET ch == Head(s)
         IN  IF ch = "\"" THEN OpenCount(Tail(s), open, close, ~in_string)
             ELSE IF in_string THEN OpenCount(Tail(s), open, close, in_string)
             ELSE OpenCount(Tail(s), open, close, in_string)
                  + (IF ch = open THEN 1 ELSE IF ch = close THEN -1 ELSE 0)

Repeat(ch, n) == [i \in 1..n |-> ch]

close_missing_brackets(s) ==
    s \o Repeat("]", Max(OpenCount(s, "[", "]", FALSE), 0))
      \o Repeat("}", Max(OpenCount(s, "{", "}", FALSE), 0))

\* try_repair_json without the `already valid` return
try_repair_json_always(broken) ==
    LET s == close_missing_brackets(remove_trailing_commas(broken, FALSE))
    IN  IF IsJson(s) THEN Some(s) ELSE None

try_repair_json(broken) ==
    LET s == close_missing_brackets(remove_trailing_commas(broken, FALSE))
    IN  IF IsJson(broken) THEN None
        ELSE IF IsJson(s) THEN Some(s)
        ELSE None

RepairInit ==
    /\ config = PlainConfig
    /\ cancel = FALSE
    /\ CallInit
    /\ OutputIdle
    /\ ChainIdle
    /\ StripIdle /\ NdjsonIdle /\ SseIdle /\ ParserNew
    /\ JsonIdle
    /\ RenderIdle
    /\ NumberIdle
    /\ ChoiceIdle
    /\ BracketIdle
    /\ repair_input \in TextsUpTo(RepairChars, MaxRepairLen)
    /\ repair_found = NotCalled

TryRepairJson ==
    /\ ~repair_found.called
    /\ repair_found' = Returned(try_repair_json(repair_input))
    /\ UNCHANGED <<repair_input, cancel, callVars, outVars, chainVars, stripVars, ndVars,
                   sseVars, parserVars, bracketVars, choiceVars, numberVars, renderVars,
                   jsonVars>>

RepairNext == TryRepairJson

RepairSpec == RepairInit /\ [][RepairNext]_vars

----------------------------------------------------------------------------
(* output_parser::choice::parse_choice                                     *)

MaxChoiceLen == 2
MaxNumberPieces == 4

ChoiceChars == {"a", "A", "b", ".", "("}

AsciiAlphanumeric == {"a", "A", "b"}

\* char::to_lowercase
LowerChar(ch) == IF ch = "A" THEN "a" ELSE IF ch = "S" THEN "s" ELSE ch

\* str::to_lowercase
to_lowercase(t) == [i \in 1..Len(t) |-> LowerChar(t[i])]

\* str::trim_matches with a set of characters
RECURSIVE trim_matches(_, _)
trim_matches(t, chars) ==
    IF t /= << >> /\ Head(t) \in chars THEN trim_matches(Tail(t), chars)
    ELSE IF t /= << >> /\ t[Len(t)] \in chars THEN trim_matches(DropLast(t), chars)
    ELSE t

\* str::trim_start_matches with a string pattern
RECURSIVE trim_start_matches(_, _)
trim_start_matches(t, pat) ==
    IF StartsWith(t, pat) THEN trim_start_matches(SubSeq(t, Len(pat) + 1, Len(t)), pat) ELSE t

\* str::trim_end_matches with a string pattern
RECURSIVE trim_end_matches(_, _)
trim_end_matches(t, pat) ==
    IF Len(t) >= Len(pat) /\ SubSeq(t, Len(t) - Len(pat) + 1, Len(t)) = pat
    THEN trim_end_matches(SubSeq(t, 1, Len(t) - Len(pat)), pat)
    ELSE t

\* the wrappers stripped for exact matching
StripWrappers(lower) ==
    Trim(trim_matches(trim_matches(trim_matches(trim_matches(
        trim_end_matches(trim_start_matches(
            trim_matches(lower, {".", "!", ","} \cup Whitespace), <<"*", "*">>), <<"*", "*">>),
        {"\""}), {"'"}), {"("}), {")"}))

\* the first index of a sequence that satisfies a test, 0 if none
FirstIndex(n, Test(_)) ==
    IF \E i \in 1..n : Test(i)
    THEN CHOOSE i \in 1..n : Test(i) /\ \A j \in 1..(i - 1) : ~Test(j)
    ELSE 0

\* an exact match that compares only the start of the stripped text
ExactMatch_prefix(stripped, choices) ==
    LET Matches(i) == StartsWith(to_lowercase(stripped), to_lowercase(choices[i]))
    IN  FirstIndex(Len(choices), Matches)

\* strategy 1: the first choice equal to the stripped text, ignoring ASCII case
ExactMatch(stripped, choices) ==
    LET Matches(i) == to_lowercase(stripped) = to_lowercase(choices[i])
    IN  FirstIndex(Len(choices), Matches)

\* strategy 2: the first choice the stripped text starts with, at a word boundary
PrefixMatch(stripped, choices) ==
    LET Matches(i) ==
            LET choice_lower == to_lowercase(choices[i])
                after == Min(Len(stripped), Len(choice_lower))
            IN  /\ StartsWith(stripped, choice_lower)
                /\ after = Len(stripped) \/ stripped[after + 1] \notin AsciiAlphanumeric
    IN  FirstIndex(Len(choices), Matches)

\* find_word_boundary_match: the first position (1-based) of needle in haystack
\* with no alphanumeric character before or after it, 0 if none
find_word_boundary_match(haystack, needle) ==
    LET hits == {p \in 1..(Len(haystack) - Len(needle) + 1) :
                    /\ SubSeq(haystack, p, p + Len(needle) - 1) = needle
                    /\ p = 1 \/ haystack[p - 1] \notin AsciiAlphanumeric
                    /\ p + Len(needle) > Len(haystack)
                       \/ haystack[p + Len(needle)] \notin AsciiAlphanumeric}
    IN  IF hits = {} THEN 0 ELSE CHOOSE p \in hits : \A q \in hits : p <= q

\* strategy 3: the choice found earliest in the full text, the first listed on a tie
WordMatch(lower, choices) ==
    LET pos(i) == find_word_boundary_match(lower, to_lowercase(choices[i]))
        Best(i) == pos(i) > 0 /\ \A j \in 1..Len(choices) :
                                    pos(j) = 0 \/ pos(j) > pos(i) \/ (pos(j) = pos(i) /\ j >= i)
    IN  FirstIndex(Len(choices), Best)

ChoiceOk(choice) == [kind |-> "Ok", choice |-> choice]
ChoiceErr(kind) == [kind |-> kind, choice |-> << >>]

parse_choice(text, choices) ==
    LET cleaned == preprocess(text)
        lower == to_lowercase(cleaned)
        stripped == StripWrappers(lower)
        exact == ExactMatch(stripped, choices)
        prefix == PrefixMatch(stripped, choices)
        word == WordMatch(lower, choices)
    IN  IF cleaned = << >> THEN ChoiceErr("EmptyResponse")
        ELSE IF exact > 0 THEN ChoiceOk(choices[exact])
        ELSE IF prefix > 0 THEN ChoiceOk(choices[prefix])
        ELSE IF word > 0 THEN ChoiceOk(choices[word])
        ELSE ChoiceErr("NoMatchingChoice")

\* the choice lists: one or two different choices, none of them empty
ChoiceLists ==
    LET words == TextsUpTo(ChoiceChars, MaxChoiceLen) \ {<< >>}
    IN  {<<c>> : c \in words} \cup {p \in words \X words : p[1] /= p[2]}

\* the response is one of the valid choices
ChoiceInit ==
    /\ config = PlainConfig
    /\ cancel = FALSE
    /\ CallInit
    /\ OutputIdle
    /\ ChainIdle
    /\ StripIdle /\ NdjsonIdle /\ SseIdle /\ ParserNew
    /\ JsonIdle
    /\ RenderIdle
    /\ NumberIdle
    /\ BracketIdle /\ RepairIdle
    /\ valid_choices \in ChoiceLists
    /\ \E i \in 1..Len(valid_choices) : choice_response = valid_choices[i]
    /\ choice_result = NotCalled

ParseChoice ==
    /\ ~choice_result.called
    /\ choice_result' = Returned(parse_choice(choice_response, valid_choices))
    /\ UNCHANGED <<valid_choices, choice_response, cancel, callVars, outVars, chainVars,
                   stripVars, ndVars, sseVars, parserVars, bracketVars, repairVars,
                   numberVars, renderVars, jsonVars>>

ChoiceNext == ParseChoice

ChoiceSpec == ChoiceInit /\ [][ChoiceNext]_vars

----------------------------------------------------------------------------
(* Numbers: parse_number, parse_number_in_range and the number_in_range
   strategy of build_output. A number is the fraction num / den, den a power
   of ten, which is exact for the short decimal texts drawn here. *)

AsciiDigits == {"0", "1", "2", "3", "4", "5", "6", "7", "8", "9"}

\* char::to_digit
DigitValue(ch) ==
    CASE ch = "0" -> 0 [] ch = "1" -> 1 [] ch = "2" -> 2 [] ch = "3" -> 3 [] ch = "4" -> 4
      [] ch = "5" -> 5 [] ch = "6" -> 6 [] ch = "7" -> 7 [] ch = "8" -> 8 [] ch = "9" -> 9

RECURSIVE DigitsValue(_)
DigitsValue(t) ==
    IF t = << >> THEN 0 ELSE 10 * DigitsValue(SubSeq(t, 1, Len(t) - 1)) + DigitValue(t[Len(t)])

RECURSIVE PowerOfTen(_)
PowerOfTen(n) == IF n = 0 THEN 1 ELSE 10 * PowerOfTen(n - 1)

AllDigits(t) == \A i \in 1..Len(t) : t[i] \in AsciiDigits

\* str::parse::<f64> on texts of digits, `.`, `-` and other characters: an
\* optional minus sign, digits, an optional point and digits, one digit at least
parse_f64(t) ==
    LET negative == t /= << >> /\ t[1] = "-"
        body == IF negative THEN Tail(t) ELSE t
        IsPoint(i) == body[i] = "."
        point == FirstIndex(Len(body), IsPoint)
        whole == IF point = 0 THEN body ELSE SubSeq(body, 1, point - 1)
        fraction == IF point = 0 THEN << >> ELSE SubSeq(body, point + 1, Len(body))
    IN  IF AllDigits(whole) /\ AllDigits(fraction) /\ Len(whole) + Len(fraction) >= 1
        THEN Some([num |-> (IF negative THEN -1 ELSE 1) * DigitsValue(whole \o fraction),
                   den |-> PowerOfTen(Len(fraction))])
        ELSE None

\* the index after the run of digits that starts at i
RECURSIVE DigitsEnd(_, _)
DigitsEnd(chars, i) ==
    IF i <= Len(chars) /\ chars[i] \in AsciiDigits THEN DigitsEnd(chars, i + 1) ELSE i

RECURSIVE FindNumbersFrom(_, _)
FindNumbersFrom(chars, i) ==
    IF i > Len(chars) THEN << >>
    ELSE LET is_negative == chars[i] = "-" /\ i + 1 <= Len(chars) /\ chars[i + 1] \in AsciiDigits
             is_digit == chars[i] \in AsciiDigits
             whole_end == DigitsEnd(chars, IF is_negative THEN i + 1 ELSE i)
             end == IF /\ whole_end <= Len(chars) /\ chars[whole_end] = "."
                       /\ whole_end + 1 <= Len(chars) /\ chars[whole_end + 1] \in AsciiDigits
                    THEN DigitsEnd(chars, whole_end + 1)
                    ELSE whole_end
         IN  IF is_digit \/ is_negative
             THEN <<SubSeq(chars, i, end - 1)>> \o FindNumbersFrom(chars, end)
             ELSE FindNumbersFrom(chars, i + 1)

find_all_numbers(text) == FindNumbersFrom(text, 1)

\* where the numerator in front of the `/` at i starts
RECURSIVE NumeratorStart(_, _)
NumeratorStart(chars, num_start) ==
    IF num_start > 1 /\ chars[num_start - 1] \in AsciiDigits \cup {".", "-"}
    THEN NumeratorStart(chars, num_start - 1)
    ELSE num_start

\* the numerator of the first `N/M` whose N parses
extract_fraction(text) ==
    LET Numerator(i) == SubSeq(text, NumeratorStart(text, i), i - 1)
        Parses(i) == text[i] = "/" /\ Numerator(i) /= << >> /\ parse_f64(Numerator(i)) /= None
        slash == FirstIndex(Len(text), Parses)
    IN  IF slash = 0 THEN None ELSE parse_f64(Numerator(slash))

NumberLabels ==
    << <<"s", "c", "o", "r", "e", ":">>,
       <<"r", "a", "t", "i", "n", "g", ":">>,
       <<"r", "e", "s", "u", "l", "t", ":">> >>

\* the first number after a label, if the label is there and a number follows
LabeledNumber(cleaned, label) ==
    LET pos == FindSub(to_lowercase(cleaned), label)
        nums == find_all_numbers(SubSeq(cleaned, pos + Len(label), Len(cleaned)))
    IN  IF pos > 0 /\ nums /= << >> THEN parse_f64(nums[1]) ELSE None

NumberOk(val) == [ok |-> TRUE, val |-> val, err |-> ""]
NumberErr(e) == [ok |-> FALSE, val |-> [num |-> 0, den |-> 1], err |-> e]

parse_number(text) ==
    LET cleaned == preprocess(text)
        Labeled(i) == LabeledNumber(cleaned, NumberLabels[i]) /= None
        label == FirstIndex(Len(NumberLabels), Labeled)
        numbers == find_all_numbers(cleaned)
        Parsed(i) == parse_f64(numbers[i]) /= None
        IsLast(i) == Parsed(i) /\ \A j \in (i + 1)..Len(numbers) : ~Parsed(j)
        last == FirstIndex(Len(numbers), IsLast)
    IN  IF cleaned = << >> THEN NumberErr("EmptyResponse")
        ELSE IF parse_f64(cleaned) /= None THEN NumberOk(Unwrap(parse_f64(cleaned)))
        ELSE IF label > 0 THEN NumberOk(Unwrap(LabeledNumber(cleaned, NumberLabels[label])))
        ELSE IF extract_fraction(cleaned) /= None THEN NumberOk(Unwrap(extract_fraction(cleaned)))
        ELSE IF last > 0 THEN NumberOk(Unwrap(parse_f64(numbers[last])))
        ELSE NumberErr("NoNumber")

\* val < min || val > max, min and max whole numbers
OutOfRange(val, min, max) == val.num < min * val.den \/ val.num > max * val.den

\* parse_number_in_range without the range check
parse_number_in_range_unchecked(text, min, max) ==
    parse_number(text)

parse_number_in_range(text, min, max) ==
    LET parsed == parse_number(text)
    IN  IF parsed.ok /\ OutOfRange(parsed.val, min, max) THEN NumberErr("NoNumber") ELSE parsed

\* ParseError's Display text
ParseErrorText(e) ==
    IF e = "EmptyResponse" THEN "empty LLM response" ELSE "no valid number found in response"

JsonNumber(val) == [kind |-> "number", number |-> val, text |-> << >>]
JsonString(text) == [kind |-> "string", number |-> [num |-> 0, den |-> 1], text |-> text]

\* build_output under OutputStrategy::NumberInRange(min, max)
build_number_in_range(raw_text, min, max) ==
    LET cleaned == extract_thinking(raw_text).cleaned
        parsed == parse_number_in_range(cleaned, min, max)
    IN  [value |-> IF parsed.ok THEN JsonNumber(parsed.val) ELSE JsonString(cleaned),
         strategy |-> "number_in_range",
         parse_error |-> IF parsed.ok THEN None ELSE Some(ParseErrorText(parsed.err))]

\* the pieces responses are put together from: a label, digits, a fraction
NumberPieces ==
    {<<"S", "c", "o", "r", "e", ":", " ">>, <<"8">>, <<".", "5">>, <<"/", "1", "0">>,
     <<"3">>, <<"-">>, <<"x">>}

NumberRanges == {<<0, 5>>, <<1, 10>>}

NumberInit ==
    /\ config = PlainConfig
    /\ cancel = FALSE
    /\ CallInit
    /\ OutputIdle
    /\ ChainIdle
    /\ StripIdle /\ NdjsonIdle /\ SseIdle /\ ParserNew
    /\ JsonIdle
    /\ RenderIdle
    /\ BracketIdle /\ RepairIdle /\ ChoiceIdle
    /\ number_response \in Concats(NumberPieces, MaxNumberPieces)
    /\ number_range \in NumberRanges
    /\ number_output = NotCalled

BuildNumberInRange ==
    /\ ~number_output.called
    /\ number_output' = Returned(build_number_in_range(number_response, number_range[1],
                                                       number_range[2]))
    /\ UNCHANGED <<number_response, number_range, cancel, callVars, outVars, chainVars,
                   stripVars, ndVars, sseVars, parserVars, bracketVars, repairVars, choiceVars,
                   renderVars, jsonVars>>

NumberNext == BuildNumberInRange

NumberSpec == NumberInit /\ [][NumberNext]_vars

----------------------------------------------------------------------------
(* Prompt rendering: LlmCall::render_prompt and prompt::render             *)

MaxTemplatePieces == 3

\* str::replace: every non-overlapping match of pat, left to right
RECURSIVE Replace(_, _, _)
Replace(text, pat, by) ==
    LET pos == FindSub(text, pat)
    IN  IF pos = 0 THEN text
        ELSE SubSeq(text, 1, pos - 1) \o by
             \o Replace(SubSeq(text, pos + Len(pat), Len(text)), pat, by)

InputPlaceholder == <<"{", "i", "n", "p", "u", "t", "}">>

\* format!("{{{}}}", key)
Placeholder(key) == <<"{">> \o key \o <<"}">>

\* for (key, value) in vars { rendered = rendered.replace(placeholder, value) }
RECURSIVE SubstituteVars(_, _)
SubstituteVars(rendered, pairs) ==
    IF pairs = << >> THEN rendered
    ELSE SubstituteVars(Replace(rendered, Placeholder(pairs[1][1]), pairs[1][2]), Tail(pairs))

\* LlmCall::render_prompt
render_prompt(template, input, pairs) ==
    SubstituteVars(Replace(template, InputPlaceholder, input), pairs)

\* "\x00LBRACE\x00" and "\x00RBRACE\x00", NUL written as one character
ESCAPE_SENTINEL == <<"NUL", "L", "B", "R", "A", "C", "E", "NUL">>
ESCAPE_SENTINEL_CLOSE == <<"NUL", "R", "B", "R", "A", "C", "E", "NUL">>

\* prompt::render
render(template, input, pairs) ==
    LET protected == Replace(Replace(template, <<"{", "{">>, ESCAPE_SENTINEL),
                             <<"}", "}">>, ESCAPE_SENTINEL_CLOSE)
        substituted == SubstituteVars(Replace(protected, InputPlaceholder, input), pairs)
    IN  Replace(Replace(substituted, ESCAPE_SENTINEL, <<"{">>), ESCAPE_SENTINEL_CLOSE, <<"}">>)

\* the pieces templates are put together from
TemplatePieces ==
    {<<"{", "{">>, <<"}", "}">>, InputPlaceholder, Placeholder(<<"n">>), <<"a">>}

\* input values and variable values, with and without braces
RenderValues == {<<"b">>, Placeholder(<<"n">>), InputPlaceholder, <<"{", "{">>}

RenderInit ==
    /\ config = PlainConfig
    /\ cancel = FALSE
    /\ CallInit
    /\ OutputIdle
    /\ ChainIdle
    /\ StripIdle /\ NdjsonIdle /\ SseIdle /\ ParserNew
    /\ JsonIdle
    /\ BracketIdle /\ RepairIdle /\ ChoiceIdle /\ NumberIdle
    /\ render_template \in Concats(TemplatePieces, MaxTemplatePieces)
    /\ render_input \in RenderValues
    /\ render_vars \in {<< >>} \cup {<< <<(<<"n">>), v>> >> : v \in RenderValues}
    /\ prompt_rendered = NotCalled
    /\ lib_rendered = NotCalled

\* Self::render_prompt(&self.prompt_template, &input_str, &ctx.vars)
RenderPrompt ==
    /\ ~prompt_rendered.called
    /\ prompt_rendered' = Returned(render_prompt(render_template, render_input, render_vars))
    /\ UNCHANGED <<render_template, render_input, render_vars, lib_rendered, cancel, callVars,
                   outVars, chainVars, stripVars, ndVars, sseVars, parserVars, bracketVars,
                   repairVars, choiceVars, numberVars, jsonVars>>

\* prompt::render(template, input, context)
Render ==
    /\ ~lib_rendered.called
    /\ lib_rendered' = Returned(render(render_template, render_input, render_vars))
    /\ UNCHANGED <<render_template, render_input, render_vars, prompt_rendered, cancel, callVars,
                   outVars, chainVars, stripVars, ndVars, sseVars, parserVars, bracketVars,
                   repairVars, choiceVars, numberVars, jsonVars>>

RenderNext == RenderPrompt \/ Render

RenderSpec == RenderInit /\ [][RenderNext]_vars

----------------------------------------------------------------------------
(* output_parser::json::parse_json_value and the json strategy of
   build_output *)

MaxJsonLen == 4

\* the three backticks of a code fence, one element of a text
Fence == <<"FENCE">>

\* text[from..].find(pat), as an index into text: 0 if none
FindAfter(text, pat, from) ==
    LET p == FindSub(SubSeq(text, from, Len(text)), pat)
    IN  IF p = 0 THEN 0 ELSE from + p - 1

\* extract_code_block: the first fenced block that is closed
RECURSIVE CodeBlockFrom(_, _)
CodeBlockFrom(text, search_from) ==
    LET abs_fence == FindAfter(text, Fence, search_from)
        after_backticks == abs_fence + Len(Fence)
        line_end == FindAfter(text, <<"\n">>, after_backticks)
        content_start == line_end + 1
        close == FindAfter(text, Fence, content_start)
    IN  IF abs_fence = 0 \/ line_end = 0 THEN None
        ELSE IF close > 0 THEN Some(Trim(SubSeq(text, content_start, close - 1)))
        ELSE CodeBlockFrom(text, after_backticks)

extract_code_block(text) == CodeBlockFrom(text, 1)

\* extract_code_block_for: the first closed block whose language hint is lang
RECURSIVE CodeBlockForFrom(_, _, _)
CodeBlockForFrom(text, lang, search_from) ==
    LET abs_fence == FindAfter(text, Fence, search_from)
        after_backticks == abs_fence + Len(Fence)
        line_end == FindAfter(text, <<"\n">>, after_backticks)
        lang_str == Trim(SubSeq(text, after_backticks, line_end - 1))
        content_start == line_end + 1
        close == FindAfter(text, Fence, content_start)
    IN  IF abs_fence = 0 \/ line_end = 0 THEN None
        ELSE IF to_lowercase(lang_str) = to_lowercase(lang) /\ close > 0
             THEN Some(Trim(SubSeq(text, content_start, close - 1)))
        ELSE CodeBlockForFrom(text, lang, content_start)

extract_code_block_for(text, lang) == CodeBlockForFrom(text, lang, 1)

\* extract_json_candidate: Ok((candidate, cleaned)), or Err(EmptyResponse)
extract_json_candidate(text) ==
    LET trimmed == Trim(text)
        cleaned == preprocess(trimmed)
        json_block == extract_code_block_for(cleaned, <<"j", "s", "o", "n">>)
        any_block == extract_code_block(cleaned)
        object == find_bracketed(cleaned, "{", "}")
        array == find_bracketed(cleaned, "[", "]")
        candidate ==
            IF IsJson(cleaned) THEN cleaned
            ELSE IF json_block /= None THEN Unwrap(json_block)
            ELSE IF any_block /= None /\ Unwrap(any_block) /= << >>
                    /\ Head(Unwrap(any_block)) \in {"{", "["}
                 THEN Unwrap(any_block)
            ELSE IF object /= None THEN Unwrap(object)
            ELSE IF array /= None THEN Unwrap(array)
            ELSE cleaned
    IN  IF trimmed = << >> \/ cleaned = << >>
        THEN [ok |-> FALSE, candidate |-> << >>, cleaned |-> << >>]
        ELSE [ok |-> TRUE, candidate |-> candidate, cleaned |-> cleaned]

\* `how` names the step of parse_json that returned the value
JsonOk(value, how) == [ok |-> TRUE, value |-> value, how |-> how, err |-> ""]
JsonErr(e) == [ok |-> FALSE, value |-> << >>, how |-> "", err |-> e]

\* parse_json::<Value> after extract_json_candidate returned `extracted`
ParseCandidate(extracted) ==
    LET candidate == extracted.candidate
        cleaned == extracted.cleaned
        repaired == try_repair_json(candidate)
        repaired_cleaned == try_repair_json(cleaned)
        completed == auto_complete_json(candidate)
    IN  IF ~extracted.ok THEN JsonErr("EmptyResponse")
        ELSE IF IsJson(candidate) THEN JsonOk(Unwrap(from_str(candidate)), "parsed")
        ELSE IF repaired /= None /\ IsJson(Unwrap(repaired))
             THEN JsonOk(Unwrap(from_str(Unwrap(repaired))), "repaired")
        ELSE IF candidate /= cleaned /\ repaired_cleaned /= None
                /\ IsJson(Unwrap(repaired_cleaned))
             THEN JsonOk(Unwrap(from_str(Unwrap(repaired_cleaned))), "repaired")
        ELSE IF completed /= None /\ IsJson(Unwrap(completed))
             THEN JsonOk(Unwrap(from_str(Unwrap(completed))), "completed")
        ELSE JsonErr("DeserializationFailed")

\* parse_json::<Value>, which parse_json_value calls; the candidate is
\* extracted once
parse_json_value(text) ==
    CHOOSE r \in { ParseCandidate(extracted) : extracted \in {extract_json_candidate(text)} } :
        TRUE

\* the value and the diagnostics build_output gives for the result `parsed` of
\* parsing `cleaned` (on a parse error the value is the parse_value_lossy
\* fallback, left out here)
JsonOutput(cleaned, parsed) ==
    [value |-> IF parsed.ok THEN Some(parsed.value) ELSE None,
     strategy |-> "json",
     parse_error |-> IF parsed.ok THEN None ELSE Some(parsed.err),
     repaired |-> parsed.ok /\ ~IsJson(cleaned),
     how |-> parsed.how]

\* build_output under OutputStrategy::Json; the text is parsed once
build_json(raw_text) ==
    LET cleaned == extract_thinking(raw_text).cleaned
    IN  CHOOSE out \in { JsonOutput(cleaned, parsed) : parsed \in {parse_json_value(cleaned)} } :
            TRUE

JsonChars == {"[", "]", ",", "1", "a"}

JsonInit ==
    /\ config = PlainConfig
    /\ cancel = FALSE
    /\ CallInit
    /\ OutputIdle
    /\ ChainIdle
    /\ StripIdle /\ NdjsonIdle /\ SseIdle /\ ParserNew
    /\ BracketIdle /\ RepairIdle /\ ChoiceIdle /\ NumberIdle /\ RenderIdle
    /\ json_response \in TextsUpTo(JsonChars, MaxJsonLen)
    /\ json_output = NotCalled

BuildJson ==
    /\ ~json_output.called
    /\ json_output' = Returned(build_json(json_response))
    /\ UNCHANGED <<json_response, cancel, callVars, outVars, chainVars, stripVars, ndVars,
                   sseVars, parserVars, bracketVars, repairVars, choiceVars, numberVars,
                   renderVars>>

JsonNext == BuildJson

JsonSpec == JsonInit /\ [][JsonNext]_vars

----------------------------------------------------------------------------
(* The invocation: next-state relation *)

Next ==
    \/ Cancel
    \/ Invoke
    \/ RetryTop
    \/ BackoffAttempt
    \/ Wake
    \/ Complete
    \/ StreamOpen
    \/ StreamToken
    \/ StreamFail
    \/ StreamEnd

Spec == Init /\ [][Next]_vars

----------------------------------------------------------------------------
(* The same invocation twice, step for step: one with an event sink
   installed, one without, on the same inputs; after each step of the first
   the second is given the same step of the backend or of the canceller *)

MaxEventRetries == 2

\* the configurations with at most MaxEventRetries retries, semantic and
\* transport retries together
EventConfigs ==
    { c \in Configs :
        c.backoff.max_retries
          + (IF IsSome(c.retry) THEN Unwrap(c.retry).max_retries ELSE 0) <= MaxEventRetries }

\* ExecCtx::builder without event_handler (exec_ctx.rs 61) for the second
EventInit ==
    /\ config \in EventConfigs
    /\ cancel \in BOOLEAN
    /\ CallFresh
    /\ event_handler = TRUE
    /\ heard = NoStep
    /\ sent = << >>
    /\ twin = [turn |-> "sink", events |-> << >>, state |-> CallState]
    /\ OutputIdle
    /\ ChainIdle
    /\ LibIdle

\* the invocations change places: the one that stepped is put aside, the
\* other goes on from where it was
Swap ==
    /\ twin.turn \in {"sink_stepped", "quiet_stepped"}
    /\ twin' = [turn |-> IF twin.turn = "sink_stepped" THEN "quiet" ELSE "sink",
                events |-> events, state |-> CallState]
    /\ event_handler' = ~event_handler
    /\ events' = twin.events
    /\ cancel' = twin.state.cancel
    /\ pc' = twin.state.pc
    /\ result' = twin.state.result
    /\ output' = twin.state.output
    /\ sem_attempt' = twin.state.sem_attempt
    /\ retry_reason' = twin.state.retry_reason
    /\ messages' = twin.state.messages
    /\ temp_offset' = twin.state.temp_offset
    /\ request' = twin.state.request
    /\ response' = twin.state.response
    /\ bo_attempt' = twin.state.bo_attempt
    /\ last_error' = twin.state.last_error
    /\ transport_retries' = twin.state.transport_retries
    /\ backoff_total_ms' = twin.state.backoff_total_ms
    /\ accumulated' = twin.state.accumulated
    /\ stream_rest' = twin.state.stream_rest
    /\ requests' = twin.state.requests
    /\ call_requests' = twin.state.call_requests
    /\ model_calls' = twin.state.model_calls
    /\ sent' = twin.state.sent
    /\ UNCHANGED <<config, heard, outVars, chainVars, libVars>>

\* the backend and the canceller do to the second what they did to the first
Replayed == twin.turn = "quiet" => heard' = heard

EventNext ==
    \/ Cancel /\ Replayed
    \/ Invoke /\ Replayed
    \/ RetryTop /\ Replayed
    \/ BackoffAttempt /\ Replayed
    \/ Wake /\ Replayed
    \/ Complete /\ Replayed
    \/ StreamOpen /\ Replayed
    \/ StreamToken /\ Replayed
    \/ StreamFail /\ Replayed
    \/ StreamEnd /\ Replayed
    \/ Swap

EventSpec == EventInit /\ [][EventNext]_vars

----------------------------------------------------------------------------
(* Properties *)

RECURSIVE TokenChunks(_)
\* the chunks of the Token events of evs, concatenated in emission order
TokenChunks(evs) ==
    IF evs = << >> THEN << >>
    ELSE (IF Head(evs).kind = "Token" THEN Head(evs).chunk ELSE << >>) \o TokenChunks(Tail(evs))

PayloadEndCount == Cardinality({ i \in 1..Len(events) : events[i].kind = "PayloadEnd" })

InAttempt == {"in_flight", "streaming"}

DefaultRetryable == {429, 500, 502, 503, 504}

\* C1: an invocation that emitted PayloadStart has, when it returns, emitted
\* exactly one PayloadEnd, and that PayloadEnd is its last event.
C1_PayloadEndIsLast ==
    (pc = "done" /\ events /= << >>) =>
        /\ events[Len(events)].kind = "PayloadEnd"
        /\ PayloadEndCount = 1

\* C2: when a streaming invocation returns Ok, the chunks of its Token events,
\* concatenated in emission order, are the raw_response of the returned output.
C2_TokensAreRawResponse ==
    (pc = "done" /\ result.kind = "ok" /\ config.streaming) =>
        TokenChunks(events) = output.raw_response

\* C3: an invocation during which the flag was set returns the cancellation error.
C3_CancelledInvocationReturnsCancelled ==
    (pc = "done" /\ cancel) => result = Cancelled

\* C4: invoke called with the flag already set returns Cancelled at once, the
\* backend has not been called, and it is not called afterwards.
C4_PreCancelledInvoke ==
    [][ /\ (pc = "idle" /\ cancel /\ pc' /= "idle") =>
            (pc' = "done" /\ result' = Cancelled /\ requests' = 0)
        /\ (pc = "done") => (requests' = requests /\ result' = result) ]_vars

C4_Witness ==
    pc = "done" /\ result = Cancelled /\ requests = 0 /\ model_calls = 0 /\ events = << >>

\* C5: once the flag is set the backoff controller starts no attempt; at its
\* check before an attempt and at its check after the sleep it returns Cancelled.
C5_NoAttemptAfterCancel ==
    [][ cancel =>
            /\ requests' = requests
            /\ (pc \in {"backoff", "sleeping"} /\ pc' /= pc) =>
                   (pc' = "done" /\ result' = Cancelled) ]_vars

\* the streaming controller saw the flag after a backoff sleep
C5_Witness ==
    /\ pc = "done" /\ result = Cancelled /\ config.streaming /\ sem_attempt = 0
    /\ bo_attempt > 0 /\ transport_retries = bo_attempt /\ requests = bo_attempt

C7_BackoffAttempts ==
    /\ [](/\ call_requests <= config.backoff.max_retries + 1
          /\ (pc \in InAttempt => call_requests = bo_attempt + 1))
    /\ [][ /\ (bo_attempt' > bo_attempt) =>
                /\ pc \in InAttempt
                /\ bo_attempt < config.backoff.max_retries
                /\ bo_attempt' = bo_attempt + 1
                /\ IsSome(last_error')
                /\ is_retryable(Unwrap(last_error'), config.backoff)
           /\ (pc \in InAttempt /\ pc' \notin InAttempt /\ bo_attempt' = bo_attempt) =>
                /\ pc' \in {"done", "retry_top"}
                /\ call_requests' = call_requests
                /\ (pc' = "done" /\ result'.kind /= "ok") =>
                       (\/ ~is_retryable(result', config.backoff)
                        \/ bo_attempt = config.backoff.max_retries) ]_vars

\* every attempt of the largest budget failed with 503
C7_Witness ==
    /\ pc = "done" /\ result = HttpError(503, None)
    /\ config.backoff.max_retries > 0
    /\ bo_attempt = config.backoff.max_retries
    /\ call_requests = config.backoff.max_retries + 1

\* C8: a failure to issue the request (connection, DNS, TLS, timeout) is
\* returned only when no attempt remains.
C8_ConnectFailureIsRetried ==
    (pc = "done" /\ result = ConnectFailure) => bo_attempt = config.backoff.max_retries

C10_FailedAttemptTokensDiscarded ==
    (pc = "streaming") => TokenChunks(events) = accumulated

\* C11: the output an invocation returns has as raw_response the text of its
\* last model call alone, and each semantic retry that returns replaces the
\* raw_response by the text of that retry.
C11_RawResponseIsLastAttempt ==
    /\ []((pc = "done" /\ result.kind = "ok") => output.raw_response = response)
    /\ [][ (output' /= output) => output'.raw_response = response' ]_vars

\* two semantic retries, each answer different from the one it replaced
C11_Witness ==
    /\ pc = "done" /\ result.kind = "ok" /\ sem_attempt = 2
    /\ output.raw_response = <<"a">>
    /\ Len(messages) = 5
    /\ messages[2].content = <<"a", "b">> /\ messages[4].content = <<"b">>

\* the validator of the configuration rejects the output
ValidatorRejects(out) ==
    /\ IsSome(config.retry)
    /\ IsSome(Unwrap(config.retry).validator)
    /\ IsSome(Validator(Unwrap(Unwrap(config.retry).validator), out.raw_response, out.value))

\* C12: a validator failure is never the error invoke returns, and an
\* invocation that used up its retry budget with the validator still failing
\* returns the last attempt's output with parse_error set in its diagnostics.
C12_ExhaustedValidatorSetsParseError ==
    /\ result.kind \in {"none", "ok", "Cancelled", "HttpError", "Request", "Other"}
    /\ (result.kind = "Other") => result = ConnectFailure
    /\ (/\ pc = "done" /\ result.kind = "ok"
        /\ ValidatorRejects(output)
        /\ output.retry_attempts >= 1
        /\ output.retry_attempts = Unwrap(config.retry).max_retries) =>
            /\ output.raw_response = response
            /\ IsSome(output.parse_error)

\* C13: an invocation with a retry configuration returns Ok only when the
\* retry predicate has cleared or the budget is used up, having made no model
\* call beyond that point; when the predicate still fails, it returns the last
\* attempt's output and has emitted RetryEnd with success = false.
C13_ExhaustedBudgetEmitsRetryEnd ==
    (pc = "done" /\ result.kind = "ok" /\ IsSome(config.retry)) =>
        LET rc == Unwrap(config.retry) IN
        /\ model_calls = output.retry_attempts + 1
        /\ \/ ~IsSome(check_retry_needed(output, rc))
           \/ output.retry_attempts = rc.max_retries
        /\ IsSome(check_retry_needed(output, rc)) =>
               /\ output.raw_response = response
               /\ \E i \in 1..Len(events) : events[i] = RetryEnd(rc.max_retries, FALSE)

\* the TransportRetry events among evs
TransportRetryEvents(evs) == SelectSeq(evs, LAMBDA e : e.kind = "TransportRetry")

RECURSIVE SumDelays(_)
\* the delays of the TransportRetry events of evs, added up
SumDelays(evs) ==
    IF evs = << >> THEN 0
    ELSE (IF Head(evs).kind = "TransportRetry" THEN Head(evs).delay_ms ELSE 0)
         + SumDelays(Tail(evs))

\* C14: the diagnostics of the returned output count the transport retries and
\* the backoff milliseconds of the whole invocation: the initial call and every
\* semantic retry call added up.
C14_DiagnosticsAccumulate ==
    (pc = "done" /\ result.kind = "ok") =>
        /\ output.transport_retries = Len(TransportRetryEvents(events))
        /\ output.backoff_total_ms = SumDelays(events)

\* index of the event that opened the current model call (0 before any)
CallStart ==
    LET opens == { i \in 1..Len(events) : events[i].kind \in {"PayloadStart", "RetryStart"} }
    IN  IF opens = {} THEN 0 ELSE CHOOSE i \in opens : \A j \in opens : j <= i

\* the events emitted since the current model call began
CallEvents == SubSeq(events, CallStart + 1, Len(events))

\* C15: within a model call the retry observer has fired once per retryable
\* failure, with attempt numbers 1, 2, ... in order; when the call succeeds
\* after k such failures the diagnostics report transport_retries = k and
\* backoff_total_ms = the sum of the k delays slept.
C15_TransportRetryDiagnostics ==
    LET fired == TransportRetryEvents(CallEvents) IN
    /\ Len(fired) = transport_retries
    /\ \A i \in 1..Len(fired) : fired[i].attempt = i
    /\ SumDelays(CallEvents) = backoff_total_ms
    /\ (pc \in InAttempt) => transport_retries = bo_attempt
    /\ (pc = "retry_top" \/ (pc = "done" /\ result.kind = "ok")) =>
            /\ call_requests = bo_attempt + 1
            /\ Len(fired) = bo_attempt
            /\ output.transport_retries = bo_attempt
            /\ output.backoff_total_ms = SumDelays(CallEvents)

\* two failures with status 503, then success: delays 10 and 20, 30 ms in all
C15_Witness ==
    /\ pc = "done" /\ result.kind = "ok" /\ sem_attempt = 0
    /\ last_error = Some(HttpError(503, None))
    /\ TransportRetryEvents(events) = <<TransportRetry(1, 10), TransportRetry(2, 20)>>
    /\ output.transport_retries = 2 /\ output.backoff_total_ms = 30

\* the RetryStart events among evs
RetryStartEvents(evs) == SelectSeq(evs, LAMBDA e : e.kind = "RetryStart")

\* a request of the current model call is being prepared, waited for or served
CallPending == pc \in {"backoff", "sleeping", "in_flight", "streaming"}

\* C16: the request of the k-th semantic retry carries 1 + 2k chat turns: the
\* rendered prompt as user turn, then per attempt an assistant turn with the
\* raw output that attempt replaces and a user turn containing that attempt's
\* failure reason; each retry extends the history of the one before by its
\* two turns.
C16_RetryChatHistory ==
    /\ []((CallPending /\ sem_attempt >= 1) =>
            LET turns == request.messages
                starts == RetryStartEvents(events)
            IN  /\ Len(turns) = 1 + 2 * sem_attempt
                /\ Len(starts) = sem_attempt
                /\ turns[1] = [role |-> "user", content |-> Prompt]
                /\ \A j \in 1..sem_attempt :
                       /\ turns[2 * j].role = "assistant"
                       /\ turns[2 * j + 1].role = "user"
                       /\ starts[j].attempt = j
                       /\ starts[j].reason /= ""
                       /\ \E i \in 1..Len(turns[2 * j + 1].content) :
                              turns[2 * j + 1].content[i] = starts[j].reason
                /\ turns[2 * sem_attempt].content = output.raw_response)
    /\ [][ (pc = "retry_top" /\ pc' = "backoff") =>
              /\ IsSome(retry_reason)
              /\ Len(request'.messages) = Len(messages) + 2
              /\ SubSeq(request'.messages, 1, Len(messages)) = messages
              /\ request'.messages[Len(messages) + 1] =
                     [role |-> "assistant", content |-> output.raw_response]
              /\ RetryStartEvents(events')[sem_attempt].reason = Unwrap(retry_reason)
              /\ (sem_attempt = 1) => Len(request'.messages) = 3 ]_vars

\* the request of the second retry: five turns, two different failure reasons
C16_Witness ==
    /\ pc = "in_flight" /\ sem_attempt = 2 /\ Len(request.messages) = 5
    /\ request.messages[2].content = <<"b">> /\ request.messages[4].content = << >>
    /\ request.messages[3].content[2] = "unparseable"
    /\ request.messages[5].content[2] = "empty answer"

\* the user turns among turns
UserTurns(turns) == SelectSeq(turns, LAMBDA t : t.role = "user")

\* C17: in a request with a non-empty chat-turn sequence the primary prompt is
\* the last user turn of the sequence, and the backend sends the sequence
\* without appending the prompt.
C17_PromptIsLastUserTurn ==
    (CallPending /\ request.messages /= << >>) =>
        LET users == UserTurns(request.messages) IN
        /\ users /= << >>
        /\ users[Len(users)].content = request.prompt
        /\ build_chat_body(request) = request.messages

\* C18: the request of every semantic retry has stream = false, and no Token
\* event follows a RetryStart event.
C18_RetriesNeverStream ==
    /\ (CallPending /\ sem_attempt >= 1) => (~request.stream /\ pc /= "streaming")
    /\ \A i, j \in 1..Len(events) :
          (i < j /\ events[i].kind = "RetryStart") => events[j].kind /= "Token"

\* a streaming payload whose streamed answer was replaced by a retry's answer
C18_Witness ==
    /\ pc = "done" /\ result.kind = "ok" /\ config.streaming
    /\ output.retry_attempts = 1 /\ output.raw_response = <<"a">>
    /\ TokenChunks(events) = <<"a", "b">>
    /\ RetryStartEvents(events) /= << >>

\* C19: build_output ends by returning a payload output, whatever the raw
\* text; a parse failure is recorded in parse_error and the value falls back
\* to the cleaned text.
C19_BuildOutputIsTotal ==
    (built.state /= "pending") =>
        /\ built.state = "returned"
        /\ built.output.raw_response = model_text
        /\ IsSome(built.output.parse_error) =>
               built.output.value = extract_thinking(model_text).cleaned

\* C20: the input handed to the first step is the chain's input, and the
\* input handed to every later step is the value of the output the step
\* before it returned.
C20_ChainTyping ==
    /\ (step_inputs /= << >>) => step_inputs[1] = chain_input
    /\ \A k \in 2..Len(step_inputs) :
          /\ k - 1 <= Len(outputs)
          /\ step_inputs[k] = outputs[k - 1].value
    /\ (chain_pc = "invoking") => Len(step_inputs) = step /\ Len(outputs) = step - 1

\* three steps ran, each on a value different from the one before
C20_Witness ==
    /\ chain_pc = "done" /\ chain_result.kind = "ok" /\ Len(chain_result.outputs) = 3
    /\ chain_input = "y"
    /\ step_inputs = <<"y", "x", "y">>
    /\ outputs[3].value = "x"

\* a step of the chain was invoked and returned no output
StepFailed ==
    chain_pc = "done" /\ chain_result.kind = "err" /\ Len(step_inputs) = Len(outputs) + 1

\* C21: the error a chain returns for a failed step is stage_failed carrying
\* the name of that step and the step's error as cause.
C21_StepErrorIsWrapped ==
    StepFailed =>
        \E cause \in StepErrors : chain_result.error = StageFailed(chain[step], cause)

\* C22: when the flag is set as a step is about to start, execute_all returns
\* Cancelled without invoking that step, and no step is invoked after the
\* chain has returned.
C22_CancelCheckedBeforeEachStep ==
    [][ /\ (chain_pc = "loop" /\ cancel) =>
            /\ chain_pc' = "done"
            /\ chain_result' = ChainErr(Cancelled)
            /\ step_inputs' = step_inputs
        /\ (chain_pc = "done") => (step_inputs' = step_inputs /\ chain_result' = chain_result)
      ]_vars

\* the flag was set while the first of three steps ran; steps 2 and 3 never ran
C22_Witness ==
    /\ chain_pc = "done" /\ chain_result = ChainErr(Cancelled)
    /\ Len(chain) = 3 /\ step = 2 /\ Len(step_inputs) = 1 /\ Len(outputs) = 1

\* C23: a chain without payloads never comes out of construction: no
\* execute_all call is made on an empty chain.
C23_EmptyChainRejectedAtConstruction ==
    [][ (chain_pc = "idle" /\ chain_pc' /= "idle") => chain /= << >> ]_vars

\* min(initial_delay x multiplier^(k-1), max_delay), in milliseconds
ExpectedBase(pol, k) ==
    Min((pol.initial_delay * Pow(pol.multiplier, k - 1)) \div Pow(10, k - 1), pol.max_delay)

\* the previous error carries Retry-After and the policy honours it
HonoursRetryAfter(pol, prev) ==
    /\ IsSome(prev) /\ Unwrap(prev).kind = "HttpError"
    /\ IsSome(Unwrap(prev).retry_after)
    /\ pol.respect_retry_after

Slept ==
    LET fired == TransportRetryEvents(CallEvents)
    IN  [i \in 1..Len(fired) |-> fired[i].delay_ms]

\* delays do not decrease, and stay at max_delay once they reach it
NonDecreasingUntilMax(delays, max_delay) ==
    \A i \in 1..(Len(delays) - 1) :
        /\ delays[i] <= delays[i + 1]
        /\ (delays[i] >= max_delay) => delays[i + 1] = max_delay

\* the policy computes every delay itself, without jitter
PlainDelays == config.backoff.jitter = "None" /\ ~config.backoff.respect_retry_after

\* C25: without jitter, under every backoff configuration, the delays of
\* successive attempts do not decrease up to max_delay and are constant from
\* then on.
C25_MonotoneForEveryConfig ==
    PlainDelays => NonDecreasingUntilMax(Slept, config.backoff.max_delay)

\* C26: no delay slept between two attempts exceeds max_delay.
C26_DelayAtMostMaxDelay ==
    \A i \in 1..Len(events) :
        (events[i].kind = "TransportRetry") => events[i].delay_ms <= config.backoff.max_delay

\* C30: whatever the text, the result of strip_think_tags contains neither a
\* "<think>" nor a "<thinking>" opening tag.
C30_NoOpeningTagLeft ==
    IsSome(strip_output) =>
        /\ FindSub(Unwrap(strip_output), OpenThink) = 0
        /\ FindSub(Unwrap(strip_output), OpenThinking) = 0

\* the value a buffer state parses to, directly or after auto-completion
ParsedValue(buffer) ==
    LET trimmed == Trim(buffer)
        completed == auto_complete_json(trimmed)
    IN  IF IsJson(trimmed) THEN from_str(trimmed)
        ELSE IF IsSome(completed) THEN from_str(Unwrap(completed))
        ELSE None

\* the value of the most recent of the buffer states that parsed
LastParsed(states) ==
    LET parsing == {i \in 1..Len(states) : IsSome(ParsedValue(states[i]))}
    IN  IF parsing = {} THEN None
        ELSE ParsedValue(states[CHOOSE i \in parsing : \A j \in parsing : i >= j])

\* a push whose buffer does not parse keeps the cached value; the cached
\* value becomes none only by clear
CacheKept ==
    /\ (pushed' /= << >> /\ ParsedValue(parser_buffer') = None)
          => cached_value' = cached_value
    /\ (IsSome(cached_value) /\ cached_value' = None)
          => (parser_buffer' = << >> /\ pushed' = << >>)

\* C29: after any sequence of pushes the cached value is the value of the most
\* recent buffer state that parsed, directly or after auto-completion; a push
\* whose buffer does not parse leaves it unchanged, and only clear resets it
\* to none.
C29_CachedIsLastParsed ==
    [](cached_value = LastParsed(pushed)) /\ [][CacheKept]_vars

\* `[`, `1`, then `x`: the buffer `[1x` does not parse and `[1]` stays cached
C29_Witness ==
    /\ pushed = << <<"[">>, <<"[", "1">>, <<"[", "1", "x">> >>
    /\ ParsedValue(parser_buffer) = None
    /\ cached_value = Some(<<"[", "1", "]">>)

\* what decode and flush return when the whole stream is one chunk
SingleChunk(stream) ==
    LET decoded == decode(<< >>, stream)
    IN  decoded.values \o flush(decoded.buffer)

\* C27: however the byte stream is split into chunks, decoding the chunks in
\* order and flushing yields the same sequence of JSON values as decoding the
\* whole stream as a single chunk.
C27_ChunkSplitIrrelevant ==
    nd_flushed => nd_values = SingleChunk(nd_input)

\* the text of a stream
RECURSIVE Utf8(_)
Utf8(bytes) ==
    IF bytes = << >> THEN << >>
    ELSE IF Len(bytes) >= 2 /\ SubSeq(bytes, 1, 2) = <<"C3", "A9">>
         THEN <<"e-acute">> \o Utf8(Tail(Tail(bytes)))
    ELSE <<Head(bytes)>> \o Utf8(Tail(bytes))

\* the JSON payloads of the complete data lines of a text, in order
RECURSIVE DataPayloads(_)
DataPayloads(text) ==
    LET pos == Find(text, "\n")
        line == Trim(SubSeq(text, 1, pos))
        payload == Trim(Unwrap(StripDataPrefix(line)))
        rest == DataPayloads(SubSeq(text, pos + 1, Len(text)))
    IN  IF pos = 0 THEN << >>
        ELSE IF IsSome(StripDataPrefix(line)) /\ payload /= Done /\ IsJson(payload)
             THEN <<Unwrap(from_str(payload))>> \o rest
        ELSE rest

\* C28: once the stream has been fed, in whatever chunks, the values decode
\* has yielded are exactly the JSON payloads of the complete data lines, in
\* order; event: lines, empty lines and [DONE] yield nothing.
C28_PayloadsOfDataLines ==
    (sse_rest = << >> /\ ~sse_flushed) => sse_values = DataPayloads(Utf8(sse_input))

\* C31: preprocess applied to its own result returns that result.
C31_PreprocessIdempotent ==
    (Len(preprocessed) = 2) => preprocessed[2] = preprocessed[1]

\* for each character of a text, whether it lies inside a double-quoted string
\* literal (the quotes themselves count as inside)
RECURSIVE InsideString(_, _, _)
InsideString(text, in_string, escape_next) ==
    IF text = << >> THEN << >>
    ELSE LET ch == Head(text)
         IN  IF escape_next THEN <<TRUE>> \o InsideString(Tail(text), in_string, FALSE)
             ELSE IF ch = "\\" /\ in_string THEN <<TRUE>> \o InsideString(Tail(text), in_string, TRUE)
             ELSE IF ch = "\"" THEN <<TRUE>> \o InsideString(Tail(text), ~in_string, FALSE)
             ELSE <<in_string>> \o InsideString(Tail(text), in_string, FALSE)

\* opening minus closing delimiters outside strings among text[i..k]
RECURSIVE DepthAt(_, _, _, _)
DepthAt(text, inside, i, k) ==
    IF k < i THEN 0
    ELSE DepthAt(text, inside, i, k - 1)
         + (IF inside[k] THEN 0 ELSE IF text[k] = "[" THEN 1 ELSE IF text[k] = "]" THEN -1 ELSE 0)

\* the regions <<i, j>> of a text that open at i, close at j and are balanced
BalancedRegions(text) ==
    LET inside == InsideString(text, FALSE, FALSE)
    IN  {r \in (1..Len(text)) \X (1..Len(text)) :
            /\ r[1] < r[2]
            /\ text[r[1]] = "[" /\ ~inside[r[1]]
            /\ text[r[2]] = "]" /\ ~inside[r[2]]
            /\ DepthAt(text, inside, r[1], r[2]) = 0
            /\ \A k \in r[1]..(r[2] - 1) : DepthAt(text, inside, r[1], k) > 0}

\* C32: find_bracketed returns the balanced region that ends last, and returns
\* nothing only if the text holds no balanced region.
C32_LastBalancedRegion ==
    bracket_found.called =>
        LET regions == BalancedRegions(bracket_text)
        IN  IF regions = {} THEN bracket_found.value = None
            ELSE \E r \in regions :
                    /\ \A q \in regions : q[2] < r[2] \/ (q[2] = r[2] /\ q[1] >= r[1])
                    /\ bracket_found.value = Some(SubSeq(bracket_text, r[1], r[2]))

\* C33 as claimed: for a string that already parses as JSON, try_repair_json
\* returns that same string.
C33_RepairReturnsValidInput ==
    (repair_found.called /\ IsJson(repair_input)) => repair_found.value = Some(repair_input)

\* C33 amended: for a string that already parses as JSON, try_repair_json
\* returns nothing: no repaired string is produced, the given string stays as
\* it is with the caller.
C33_NoRepairOfValidJson ==
    (repair_found.called /\ IsJson(repair_input)) => repair_found.value = None

\* `[1]` is valid and nothing is returned for it
C33_Witness ==
    /\ repair_found.called
    /\ repair_input = <<"[", "1", "]">>
    /\ repair_found.value = None

\* C34 as claimed: for every list of valid choices and every choice c in it,
\* parsing the response text c returns c.
C34_ChoiceRoundTrip ==
    choice_result.called => choice_result.value = ChoiceOk(choice_response)

\* a choice made of ASCII letters and digits only, and not empty
PlainWord(c) == c /= << >> /\ \A i \in 1..Len(c) : c[i] \in AsciiAlphanumeric

\* the choices are plain words, different from one another ignoring case
PlainChoices(choices) ==
    /\ \A i \in 1..Len(choices) : PlainWord(choices[i])
    /\ \A i, j \in 1..Len(choices) :
          i /= j => to_lowercase(choices[i]) /= to_lowercase(choices[j])

\* C34 amended: for every list of valid choices that are non-empty words of
\* ASCII letters and digits and differ from one another when compared without
\* regard to case, and every choice c in it, parsing the response text c
\* returns c.
C34_PlainChoiceRoundTrip ==
    (choice_result.called /\ PlainChoices(valid_choices)) =>
        choice_result.value = ChoiceOk(choice_response)

\* `Ab` is returned for the response `Ab` although `A` is listed before it
C34_Witness ==
    /\ choice_result.called
    /\ valid_choices = << <<"A">>, <<"A", "b">> >>
    /\ choice_response = <<"A", "b">>
    /\ choice_result.value = ChoiceOk(<<"A", "b">>)

\* the number parse_number extracts from the cleaned response
ExtractedNumber == parse_number(extract_thinking(number_response).cleaned)

\* the response holds a number and the number lies outside the range
NumberOutsideRange ==
    /\ number_output.called
    /\ ExtractedNumber.ok
    /\ OutOfRange(ExtractedNumber.val, number_range[1], number_range[2])

\* C35 as claimed: with strategy number_in_range(min, max), a response whose
\* extracted number lies outside [min, max] yields an output whose parse_error
\* is set and whose value is the extracted number.
C35_OutOfRangeKeepsNumber ==
    NumberOutsideRange =>
        /\ number_output.value.parse_error /= None
        /\ number_output.value.value = JsonNumber(ExtractedNumber.val)

\* C35 amended: with strategy number_in_range(min, max), a response whose
\* extracted number lies outside [min, max] yields an output whose parse_error
\* is the text of the NoNumber error, the same as when no number is found, and
\* whose value is the cleaned response text as a string; the extracted number
\* is not kept.
C35_OutOfRangeKeepsText ==
    NumberOutsideRange =>
        /\ number_output.value.parse_error = Some(ParseErrorText("NoNumber"))
        /\ number_output.value.value = JsonString(extract_thinking(number_response).cleaned)

\* `Score: 8.5/10` with the range 0 to 5: the number 8.5 is extracted, and the
\* output is the text with a parse error
C35_Witness ==
    /\ number_output.called
    /\ number_response = <<"S", "c", "o", "r", "e", ":", " ", "8", ".", "5", "/", "1", "0">>
    /\ number_range = <<0, 5>>
    /\ ExtractedNumber = NumberOk([num |-> 85, den |-> 10])
    /\ number_output.value.parse_error = Some("no valid number found in response")
    /\ number_output.value.value.kind = "string"

\* the template rendered in one pass from left to right: a doubled brace gives
\* the brace, a placeholder gives its value, and what was put in is not read again
RECURSIVE RenderedOnce(_, _, _)
RenderedOnce(template, input, pairs) ==
    LET Rest(n) == RenderedOnce(SubSeq(template, n + 1, Len(template)), input, pairs)
        IsKey(i) == StartsWith(template, Placeholder(pairs[i][1]))
        key == FirstIndex(Len(pairs), IsKey)
    IN  IF template = << >> THEN << >>
        ELSE IF StartsWith(template, <<"{", "{">>) THEN <<"{">> \o Rest(2)
        ELSE IF StartsWith(template, <<"}", "}">>) THEN <<"}">> \o Rest(2)
        ELSE IF StartsWith(template, InputPlaceholder) THEN input \o Rest(Len(InputPlaceholder))
        ELSE IF key > 0 THEN pairs[key][2] \o Rest(Len(Placeholder(pairs[key][1])))
        ELSE <<template[1]>> \o Rest(1)

\* C36: prompt rendering for an LLM call gives a literal brace for a doubled
\* brace and never expands a placeholder that came in with the input or with a
\* variable's value.
C36_RenderPromptLiteralBraces ==
    prompt_rendered.called =>
        prompt_rendered.value = RenderedOnce(render_template, render_input, render_vars)

\* C37: events are advisory. With no sink every event is dropped; and an
\* invocation without a sink, given the inputs of an invocation with a sink
\* and, step by step, the same backend and canceller behaviour, can take
\* every step that one takes and is then where that one is: it has made the
\* same backend requests in the same order and has returned, or not yet, the
\* same value or error.
C37_EventsAreAdvisory ==
    /\ ~event_handler => events = << >>
    /\ twin.turn = "quiet" => ENABLED EventNext
    /\ twin.turn = "quiet_stepped" =>
          /\ CallState = twin.state
          /\ sent = twin.state.sent
          /\ result = twin.state.result
          /\ (result = OkResult => output = twin.state.output)

\* both invocations have returned Ok after the same two requests; the sink got
\* the events of the first, the second emitted into nothing
C37_Witness ==
    /\ twin.turn = "quiet_stepped"
    /\ pc = "done"
    /\ result = OkResult
    /\ Len(sent) = 2
    /\ sent = twin.state.sent
    /\ output = twin.state.output
    /\ twin.events /= << >>
    /\ events = << >>

\* C38: the repaired diagnostic is set exactly when the strategy is json, the
\* parse succeeds and the direct parse of the cleaned text fails, and that is
\* exactly when repair or completion gave the value.
C38_RepairedIffRepairGaveTheValue ==
    json_output.called =>
        /\ json_output.value.repaired <=>
              (json_output.value.parse_error = None
                 /\ ~IsJson(extract_thinking(json_response).cleaned))
        /\ json_output.value.repaired <=> json_output.value.how \in {"repaired", "completed"}

\* the events after position i, up to position k, hold the RetryEnd of the
\* attempt that events[i] started
RetryEndedBy(i, k) ==
    \E e \in (i + 1)..k :
        events[e].kind = "RetryEnd" /\ events[e].attempts = events[i].attempt

\* C39: every RetryStart of an attempt is followed by the RetryEnd of that
\* attempt before the next RetryStart and before the invocation returns,
\* whatever the outcome of the attempt.
C39_RetryEventsBalanced ==
    \A i \in 1..Len(events) :
        events[i].kind = "RetryStart" =>
            /\ \A j \in (i + 1)..Len(events) :
                   events[j].kind = "RetryStart" => RetryEndedBy(i, j - 1)
            /\ pc = "done" => RetryEndedBy(i, Len(events))

\* C40: when a step of a chain returns an error, execute_all returns an error
\* at once, no later step is invoked, and the outputs of the steps before it
\* are not returned.
C40_ChainFailsFast ==
    /\ Len(step_inputs) <= Len(outputs) + 1
    /\ (Len(step_inputs) = Len(outputs) + 1 /\ chain_pc /= "invoking") =>
          /\ chain_pc = "done"
          /\ chain_result.kind = "err"
          /\ chain_result.error \in StepErrors
          /\ chain_result.outputs = << >>
          /\ Len(step_inputs) = step

\* the second of three steps failed: the third never ran, and the first
\* step's output is not in the result
C40_Witness ==
    /\ chain_pc = "done" /\ chain_result = ChainErr(Other("step failed"))
    /\ Len(chain) = 3 /\ step = 2 /\ Len(step_inputs) = 2 /\ Len(outputs) = 1

====
